---- MODULE Spec2Model ----
(***************************************************************************)
(* Verification model of the valuation core of bugsybytes-api.             *)
(*                                                                         *)
(*  Part 1 (Spec):    csv_to_ledger_year_range of                          *)
(*                    service/portfolio/ledger_entry_generator.py, the lot *)
(*                    ledger replay that turns yearly transaction files    *)
(*                    into yearly ledger files.                            *)
(*  Part 2 (SpecCal): next_market_day of service/util/holiday_calculator.py*)
(*  Part 3 (SpecCoupon): generate_coupon_dates of                          *)
(*                    service/gsec/util/cashflow_generator.py              *)
(*  Part 4 (SpecSchedule): generate_cashflows and                          *)
(*                    apply_coupon_and_principal of the same file, for the *)
(*                    rows of one instrument                               *)
(*  Part 5 (SpecXirr): xirr and forward_xirr of                            *)
(*                    service/util/xirr_calculator.py                      *)
(*  Part 6 (SpecYtm): calculate_gsec_ytm of                                *)
(*                    service/gsec/util/ytm_calculator.py                  *)
(*  Part 7 (SpecPrice): calculate_price_for_target_xirr_binary of          *)
(*                    service/util/xirr_calculator.py                      *)
(*  Part 8 (SpecCouponBond): __ytm_coupon_bond of                          *)
(*                    service/gsec/util/ytm_calculator.py and of           *)
(*                    service/util/ytm_calculator.py                       *)
(*  Part 9 (SpecBatch): the XIRR section of generate_cashflows             *)
(*  Part 10 (SpecPool): generate_gsec_portfolio_df and                     *)
(*                    compute_for_commodity of                             *)
(*                    service/portfolio/dashboard/gsec_data.py             *)
(*  Part 11 (SpecSettle): build_gsec_cashflows of                          *)
(*                    service/gsec/util/cashflow_generator.py              *)
(*                                                                         *)
(* Every specification starts the parts it does not run in their idle      *)
(* state and leaves them unchanged.                                        *)
(*                                                                         *)
(* Quantities and cash amounts are whole units; costs and prices per unit  *)
(* are Decimals quantized to six places and are held as integers counting  *)
(* millionths (SIX_DP).                                                    *)
(***************************************************************************)
EXTENDS Integers, Sequences, FiniteSets, TLC

(***************************************************************************)
(* The explored input space.                                               *)
(***************************************************************************)
\* the arguments start_year and end_year of the run: two yearly files
start_year == 1
end_year == 2
\* rows of one yearly transaction file
MaxRows == 2
\* quantity of one BUY or SELL row
MaxQty == 2

\* SIX_DP = Decimal("0.000001"): per-unit values are counted in millionths
SIX_DP == 1000000

\* values of the date column; the code compares them as they are and never
\* relates them to the year of the file they stand in
Dates == {1, 2}
\* absolute cash amounts of a row (total cost of a BUY, proceeds of a SELL)
Amounts == {1}
\* (account, symbol) buckets
Keys == {1}
\* values of the lot_selection_method column of a SELL row
Methods == {"FIFO", "LIFO", "HIFO"}

(***************************************************************************)
(* Rows of a transaction file.  kind is the classification the code makes  *)
(* from the two account columns: BUY when to_account is an investment      *)
(* account, else SELL when from_account is one, else OTHER.  Rows are      *)
(* well formed: nine columns, a positive quantity, a policy select_lot     *)
(* knows.  The lot_selection_method column is empty on rows that are not   *)
(* SELLs.                                                                  *)
(***************************************************************************)
BuyRows ==
    [date : Dates, kind : {"BUY"}, key : Keys, qty : 1..MaxQty,
     amt : Amounts, method : {""}]

SellRows ==
    [date : Dates, kind : {"SELL"}, key : Keys, qty : 1..MaxQty,
     amt : Amounts, method : Methods]

OtherRows ==
    [date : Dates, kind : {"OTHER"}, key : {0}, qty : {0},
     amt : {0}, method : {""}]

Rows == BuyRows \cup SellRows \cup OtherRows

\* the possible contents of one yearly transaction file
Files == UNION {[1..n -> Rows] : n \in 0..MaxRows}

VARIABLES
    pc,         \* position of the run: "year", "row", "sell", "done", "exit"
    year,       \* loop variable of the year loop
    rows,       \* the sorted rows of the current file not yet processed
    lots,       \* lots[k]: the deque of the bucket k, oldest append first
    lines,      \* the ledger lines of the current year
    remaining,  \* quantity of the current SELL still to match
    written,    \* years whose ledger file was written by this run
    fatal,      \* "" or the fatal error the run exited with
    bought,     \* history: quantity bought so far, per bucket
    sold,       \* history: quantity disposed of so far, per bucket
    buys,       \* history: number of BUY rows applied so far, per bucket
    nextId,     \* history: creation index given to the next lot
    lastKey,    \* history: sort key of the row applied last
    start_date, lag_days, market_holidays, current_date, days_counted, cpc

ledgerVars ==
    <<pc, year, rows, lots, lines, remaining, written, fatal,
      bought, sold, buys, nextId, lastKey>>

calVars ==
    <<start_date, lag_days, market_holidays, current_date, days_counted, cpc>>

VARIABLES
    cstart,            \* generate_coupon_dates: its start_date
    maturity_date,     \* maturity date of the instrument
    coupon_frequency,  \* coupon payments per year
    unshifted,         \* history: the coupon dates before market shifting
    coupon_dates,      \* the list generate_coupon_dates returns
    gpc                \* "idle", "call", "done" or "ValueError"

couponVars ==
    <<cstart, maturity_date, coupon_frequency, unshifted, coupon_dates, gpc>>

VARIABLES
    events,       \* rows of joined_df of the instrument not yet seeded
    cf,           \* the SortedDict of the instrument: date -> entry
    spc,          \* "idle", "seed", "walk", "done" or "exit"
    running_qty,  \* apply_coupon_and_principal: its running_qty
    walked,       \* dates apply_coupon_and_principal has gone over
    last_date,    \* apply_coupon_and_principal: its last_date
    seeded,       \* history: cf as handed to apply_coupon_and_principal
    coupon_rate,  \* coupon rate of the instrument, in percent
    face_value    \* face value of the instrument

scheduleVars ==
    <<events, cf, spc, running_qty, walked, last_date, seeded, coupon_rate,
      face_value>>

VARIABLES
    xmode,          \* "xirr" or "forward_xirr": the function called
    xdates,         \* its argument dates, as day numbers
    xflows,         \* its argument cashflows
    today,          \* date.today()
    portfolio_value,\* forward_xirr: its argument portfolio_value
    new_dates,      \* forward_xirr: the dates handed to the solver
    new_cashflows,  \* forward_xirr: the cashflows handed to the solver
    guesses,        \* history: x0 of every newton call made, in order
    outcomes,       \* history: how every newton call ended, in order
    xpc             \* "idle", "call", "except", "returned", "raised", "nan"

xirrVars ==
    <<xmode, xdates, xflows, today, portfolio_value, new_dates,
      new_cashflows, guesses, outcomes, xpc>>

VARIABLES
    price,             \* calculate_gsec_ytm: its argument price
    ytm_coupon_rate,   \* its argument coupon_rate
    is_tbill,          \* its argument is_tbill
    is_stripped_gsec,  \* its argument is_stripped_gsec
    days_to_maturity,  \* (maturity_date - settlement_date).days
    ytm_calls,         \* history: the routines entered, in order
    ytm,               \* what the call returns: "nan" or the form used
    ypc                \* "idle", "call" or "done"

ytmVars ==
    <<price, ytm_coupon_rate, is_tbill, is_stripped_gsec, days_to_maturity,
      ytm_calls, ytm, ypc>>

bondVars == <<couponVars, scheduleVars, xirrVars, ytmVars>>

VARIABLES
    search,            \* calculate_price_for_target_xirr_binary: its frame
    bond,              \* __ytm_coupon_bond: its frame
    batch,             \* generate_cashflows: its XIRR section
    pool,              \* generate_gsec_portfolio_df: its thread pool
    settle             \* build_gsec_cashflows: its frame

toolVars == <<search, bond, batch, pool, settle>>

vars == <<ledgerVars, calVars, bondVars, toolVars>>

\* a date that is not in use
NoDate == [y |-> 0, m |-> 0, d |-> 0]

\* generate_coupon_dates is not called
CouponIdle ==
    /\ cstart = NoDate
    /\ maturity_date = NoDate
    /\ coupon_frequency = 0
    /\ unshifted = <<>>
    /\ coupon_dates = <<>>
    /\ gpc = "idle"

\* generate_cashflows is not called
ScheduleIdle ==
    /\ events = <<>>
    /\ cf = <<>>
    /\ spc = "idle"
    /\ running_qty = 0
    /\ walked = {}
    /\ last_date = 0
    /\ seeded = <<>>
    /\ coupon_rate = 0
    /\ face_value = 0

\* neither xirr nor forward_xirr is called
XirrIdle ==
    /\ xmode = "idle"
    /\ xdates = <<>>
    /\ xflows = <<>>
    /\ today = 0
    /\ portfolio_value = 0
    /\ new_dates = <<>>
    /\ new_cashflows = <<>>
    /\ guesses = <<>>
    /\ outcomes = <<>>
    /\ xpc = "idle"

\* calculate_gsec_ytm is not called
YtmIdle ==
    /\ price = <<>>
    /\ ytm_coupon_rate = <<>>
    /\ is_tbill = FALSE
    /\ is_stripped_gsec = FALSE
    /\ days_to_maturity = 0
    /\ ytm_calls = <<>>
    /\ ytm = ""
    /\ ypc = "idle"

\* the cashflow scheduler and the yield solvers are not in use
BondIdle == CouponIdle /\ ScheduleIdle /\ XirrIdle /\ YtmIdle

\* calculate_price_for_target_xirr_binary is not called
PriceIdle == search = [pc |-> "idle"]

\* __ytm_coupon_bond is not called
CouponBondIdle == bond = [pc |-> "idle"]

\* the XIRR section of generate_cashflows is not run
BatchIdle == batch = [pc |-> "idle"]

\* generate_gsec_portfolio_df is not called
PoolIdle == pool = [pc |-> "idle"]

\* build_gsec_cashflows is not called
SettleIdle == settle = [pc |-> "idle"]

\* the routines built on the solvers are not in use
ToolIdle ==
    /\ PriceIdle /\ CouponBondIdle /\ BatchIdle
    /\ PoolIdle /\ SettleIdle

(***************************************************************************)
(* Pure helpers of ledger_entry_generator.py                               *)
(***************************************************************************)
\* mutant of Min: the whole lot is taken, whatever is still needed
MinTakesLot(a, b) == a

\* min(lot["qty"], remaining)
Min(a, b) == IF a <= b THEN a ELSE b

\* fmt(a / b): the quotient quantized to six places, ROUND_HALF_UP (a, b > 0)
fmt(a, b) == (2 * a * SIX_DP + b) \div (2 * b)

\* the priority transaction_sort_key gives to a row
Priority(r) ==
    IF r.kind = "BUY" THEN 0
    ELSE IF r.kind = "SELL" THEN 1
    ELSE 2

transaction_sort_key(r) == <<r.date, Priority(r)>>

\* tuple comparison a <= b of two sort keys
KeyLeq(a, b) == a[1] < b[1] \/ (a[1] = b[1] /\ a[2] <= b[2])

\* where list.sort (stable) places r in an already sorted list s
InsertRow(s, r) ==
    LET n == Cardinality({i \in 1..Len(s) :
                 KeyLeq(transaction_sort_key(s[i]), transaction_sort_key(r))})
    IN SubSeq(s, 1, n) \o <<r>> \o SubSeq(s, n + 1, Len(s))

RECURSIVE SortPrefix(_, _)
SortPrefix(f, n) ==
    IF n = 0 THEN <<>> ELSE InsertRow(SortPrefix(f, n - 1), f[n])

\* rows.sort(key=transaction_sort_key)
SortRows(f) == SortPrefix(f, Len(f))

RECURSIVE SumQty(_)
SumQty(b) == IF b = <<>> THEN 0 ELSE Head(b).qty + SumQty(Tail(b))

MaxCost(b) == CHOOSE c \in {b[i].cost : i \in 1..Len(b)} :
                 \A i \in 1..Len(b) : b[i].cost <= c

\* the first position holding the given value of a set of positions
FirstOf(S) == CHOOSE i \in S : \A j \in S : i <= j

\* mutant of select_lot: HIFO keeps the last lot of maximal cost
select_lot_last_max(b, method) ==
    LET m == IF method = "" THEN "FIFO" ELSE method
    IN IF m = "FIFO" THEN 1
       ELSE IF m = "LIFO" THEN Len(b)
       ELSE CHOOSE i \in 1..Len(b) :
               /\ b[i].cost = MaxCost(b)
               /\ \A j \in 1..Len(b) : b[j].cost = MaxCost(b) => j <= i

\* select_lot: position in the deque of the lot the method selects; an
\* empty method counts as FIFO, and max() keeps the first maximal element
select_lot(b, method) ==
    LET m == IF method = "" THEN "FIFO" ELSE method
    IN IF m = "FIFO" THEN 1
       ELSE IF m = "LIFO" THEN Len(b)
       ELSE FirstOf({i \in 1..Len(b) : b[i].cost = MaxCost(b)})

\* mutant of DequeRemove: popleft(), the head of the deque goes
DequePopLeft(b, lot) == Tail(b)

\* mutant of DequeRemove: the spent lot is left in the deque
DequeKeep(b, lot) == b

\* deque.remove(lot): drops the first element equal to lot; dict equality
\* compares the qty and cost entries (id and cost0 are history the model
\* attaches to a lot: its creation index and its cost when created)
DequeRemove(b, lot) ==
    LET i == FirstOf({j \in 1..Len(b) :
                         b[j].qty = lot.qty /\ b[j].cost = lot.cost})
    IN SubSeq(b, 1, i - 1) \o SubSeq(b, i + 1, Len(b))

\* mutant of SellIter: LIFO takes its lot with pop(), so the lot has left
\* the deque whether or not anything remains of it
SellIterLifoPops(b, rem, r) ==
    LET lot == b[Len(b)]
        take == Min(lot.qty, rem)
    IN IF r.method = "LIFO"
       THEN [lots |-> SubSeq(b, 1, Len(b) - 1),
             remaining |-> rem - take,
             line |-> [t |-> "disposal", key |-> r.key, qty |-> take,
                       cost |-> lot.cost, price |-> fmt(r.amt, r.qty)]]
       ELSE LET i == select_lot(b, r.method)
                l == b[i]
                tk == Min(l.qty, rem)
                used == [l EXCEPT !.qty = l.qty - tk]
                b1 == [b EXCEPT ![i] = used]
            IN [lots |-> IF used.qty = 0 THEN DequeRemove(b1, used) ELSE b1,
                remaining |-> rem - tk,
                line |-> [t |-> "disposal", key |-> r.key, qty |-> tk,
                          cost |-> l.cost, price |-> fmt(r.amt, r.qty)]]

\* the body of "while remaining > 0" (lines 268-282) on the deque b of the
\* bucket, for the SELL row r with rem still to match: the lot is selected,
\* take is cut from it, the disposal line is emitted, and the lot leaves the
\* deque when nothing is left of it
SellIter(b, rem, r) ==
    LET i == select_lot(b, r.method)
        lot == b[i]
        take == Min(lot.qty, rem)
        sell_price == fmt(r.amt, r.qty)
        used == [lot EXCEPT !.qty = lot.qty - take]
        b1 == [b EXCEPT ![i] = used]
    IN [lots |-> IF used.qty = 0 THEN DequeRemove(b1, used) ELSE b1,
        remaining |-> rem - take,
        line |-> [t |-> "disposal", key |-> r.key, qty |-> take,
                  cost |-> lot.cost, price |-> sell_price]]

\* what rows.sort leaves in rows, over all possible contents of the file
SortedFiles == {SortRows(f) : f \in Files}

(***************************************************************************)
(* csv_to_ledger_year_range                                                *)
(***************************************************************************)
LedgerInit ==
    /\ pc = "year"
    /\ year = start_year
    /\ rows = <<>>
    /\ lots = [k \in Keys |-> <<>>]
    /\ lines = <<>>
    /\ remaining = 0
    /\ written = {}
    /\ fatal = ""
    /\ bought = [k \in Keys |-> 0]
    /\ sold = [k \in Keys |-> 0]
    /\ buys = [k \in Keys |-> 0]
    /\ nextId = 1
    /\ lastKey = <<0, 0>>

\* the year loop is exhausted: the function returns
FinishRun ==
    /\ pc = "year"
    /\ year > end_year
    /\ pc' = "done"
    /\ UNCHANGED <<year, rows, lots, lines, remaining, written, fatal,
                   bought, sold, buys, nextId, lastKey>>

\* os.path.exists(csv_path) is false: sys.exit(1)
MissingFile ==
    /\ pc = "year"
    /\ year <= end_year
    /\ pc' = "exit"
    /\ fatal' = "missing file"
    /\ UNCHANGED <<year, rows, lots, lines, remaining, written,
                   bought, sold, buys, nextId, lastKey>>

\* the file is read and its rows are sorted; lines starts empty
ReadAndSort ==
    /\ pc = "year"
    /\ year <= end_year
    /\ \E s \in SortedFiles : rows' = s
    /\ lines' = <<>>
    /\ pc' = "row"
    /\ UNCHANGED <<year, lots, remaining, written, fatal,
                   bought, sold, buys, nextId, lastKey>>

\* a BUY row: a lot is appended to the bucket of (to_account, symbol)
ProcessBuy ==
    /\ pc = "row"
    /\ rows # <<>>
    /\ Head(rows).kind = "BUY"
    /\ LET r == Head(rows)
           cost_per_unit == fmt(r.amt, r.qty)
       IN /\ lots' = [lots EXCEPT ![r.key] =
                        Append(@, [qty |-> r.qty, cost |-> cost_per_unit,
                                   id |-> nextId, cost0 |-> cost_per_unit])]
          /\ lines' = Append(lines, [t |-> "buy", key |-> r.key,
                                     qty |-> r.qty, cost |-> cost_per_unit,
                                     price |-> 0])
          /\ bought' = [bought EXCEPT ![r.key] = @ + r.qty]
          /\ buys' = [buys EXCEPT ![r.key] = @ + 1]
          /\ lastKey' = transaction_sort_key(r)
    /\ nextId' = nextId + 1
    /\ rows' = Tail(rows)
    /\ UNCHANGED <<pc, year, remaining, written, fatal, sold>>

\* a SELL row is entered: remaining = sell_qty
StartSell ==
    /\ pc = "row"
    /\ rows # <<>>
    /\ Head(rows).kind = "SELL"
    /\ remaining' = Head(rows).qty
    /\ lastKey' = transaction_sort_key(Head(rows))
    /\ pc' = "sell"
    /\ UNCHANGED <<year, rows, lots, lines, written, fatal,
                   bought, sold, buys, nextId>>

\* one iteration of "while remaining > 0" with a lot in the bucket
SellStep ==
    /\ pc = "sell"
    /\ remaining > 0
    /\ lots[Head(rows).key] # <<>>
    /\ LET r == Head(rows)
           it == SellIter(lots[r.key], remaining, r)
       IN /\ lines' = Append(lines, it.line)
          /\ remaining' = it.remaining
          /\ lots' = [lots EXCEPT ![r.key] = it.lots]
          /\ sold' = [sold EXCEPT ![r.key] = @ + it.line.qty]
    /\ UNCHANGED <<pc, year, rows, written, fatal, bought, buys, nextId,
                   lastKey>>

\* mutant of SellFail: the loop is left and the run goes on to the next row
SellFailSkipsRow ==
    /\ pc = "sell"
    /\ remaining > 0
    /\ lots[Head(rows).key] = <<>>
    /\ remaining' = 0
    /\ rows' = Tail(rows)
    /\ pc' = "row"
    /\ UNCHANGED <<year, lots, lines, written, fatal,
                   bought, sold, buys, nextId, lastKey>>

\* the bucket is empty while quantity is still unmatched: sys.exit(1)
SellFail ==
    /\ pc = "sell"
    /\ remaining > 0
    /\ lots[Head(rows).key] = <<>>
    /\ pc' = "exit"
    /\ fatal' = "insufficient inventory"
    /\ UNCHANGED <<year, rows, lots, lines, remaining, written,
                   bought, sold, buys, nextId, lastKey>>

\* the loop ends with remaining = 0: the cash posting closes the SELL
SellDone ==
    /\ pc = "sell"
    /\ remaining <= 0
    /\ lines' = Append(lines, [t |-> "cash", key |-> Head(rows).key,
                               qty |-> 0, cost |-> 0,
                               price |-> Head(rows).amt * SIX_DP])
    /\ rows' = Tail(rows)
    /\ pc' = "row"
    /\ UNCHANGED <<year, lots, remaining, written, fatal,
                   bought, sold, buys, nextId, lastKey>>

\* a row that touches no investment account: both postings are copied
ProcessOther ==
    /\ pc = "row"
    /\ rows # <<>>
    /\ Head(rows).kind = "OTHER"
    /\ lines' = Append(lines, [t |-> "other", key |-> 0, qty |-> 0,
                               cost |-> 0, price |-> 0])
    /\ lastKey' = transaction_sort_key(Head(rows))
    /\ rows' = Tail(rows)
    /\ UNCHANGED <<pc, year, lots, remaining, written, fatal,
                   bought, sold, buys, nextId>>

\* all rows of the year are processed: the lines go to the ledger file of
\* the year.  The list is not read again before line 203 rebinds it, so the
\* model lets go of it here.
WriteLedger ==
    /\ pc = "row"
    /\ rows = <<>>
    /\ written' = written \cup {year}
    /\ lines' = <<>>
    /\ year' = year + 1
    /\ pc' = "year"
    /\ UNCHANGED <<rows, lots, remaining, fatal,
                   bought, sold, buys, nextId, lastKey>>

LedgerNext ==
    \/ FinishRun
    \/ MissingFile
    \/ ReadAndSort
    \/ ProcessBuy
    \/ StartSell
    \/ SellStep
    \/ SellFail
    \/ SellDone
    \/ ProcessOther
    \/ WriteLedger

\* the calendar is not in use during a ledger run
CalIdle ==
    /\ start_date = 0
    /\ lag_days = 0
    /\ market_holidays = {}
    /\ current_date = 0
    /\ days_counted = 0
    /\ cpc = "idle"

Init == LedgerInit /\ CalIdle /\ BondIdle /\ ToolIdle

Next == LedgerNext /\ UNCHANGED <<calVars, bondVars, toolVars>>

Spec == Init /\ [][Next]_vars

(***************************************************************************)
(* next_market_day of service/util/holiday_calculator.py                   *)
(*                                                                         *)
(* Dates are day numbers; day 0 is a Monday, so date.weekday() is the day  *)
(* number modulo 7 (5 = Saturday, 6 = Sunday).  market_holidays is the set *)
(* the holidays package delivers; any set of at most MaxHolidays days up   *)
(* to LastHoliday is explored.                                             *)
(***************************************************************************)
\* latest start_date explored (0..MaxStart covers every day of the week)
MaxStart == 6
\* largest lag_days explored
MaxLag == 2
\* size of the holiday set
MaxHolidays == 2
\* last day that may be a holiday
LastHoliday == 10

HolidaySets ==
    {h \in SUBSET (0..LastHoliday) : Cardinality(h) <= MaxHolidays}

weekday(d) == d % 7

\* mutant of Counted: a holiday on a weekday is counted as a market day
CountedWeekday(d) == weekday(d) < 5

\* line 22: the day counts towards lag_days
Counted(d) == weekday(d) < 5 /\ d \notin market_holidays

\* mutant of Rolling: only weekends are rolled over
RollingWeekend(d) == weekday(d) >= 5

\* line 26: the day is rolled over by the closing loop
Rolling(d) == weekday(d) >= 5 \/ d \in market_holidays

\* a call next_market_day(start_date, lag_days) is entered
CalInit ==
    /\ market_holidays \in HolidaySets
    /\ start_date \in 0..MaxStart
    /\ lag_days \in 0..MaxLag
    /\ current_date = start_date
    /\ days_counted = 0
    /\ cpc = "count"

\* one iteration of "while days_counted < lag_days"
CountStep ==
    /\ cpc = "count"
    /\ days_counted < lag_days
    /\ current_date' = current_date + 1
    /\ days_counted' =
          IF Counted(current_date + 1) THEN days_counted + 1 ELSE days_counted
    /\ UNCHANGED <<start_date, lag_days, market_holidays, cpc>>

\* the counting loop ends
CountDone ==
    /\ cpc = "count"
    /\ ~ (days_counted < lag_days)
    /\ cpc' = "roll"
    /\ UNCHANGED <<start_date, lag_days, market_holidays, current_date,
                   days_counted>>

\* one iteration of the closing loop
RollStep ==
    /\ cpc = "roll"
    /\ Rolling(current_date)
    /\ current_date' = current_date + 1
    /\ UNCHANGED <<start_date, lag_days, market_holidays, days_counted, cpc>>

\* the closing loop ends: current_date is returned
Return ==
    /\ cpc = "roll"
    /\ ~ Rolling(current_date)
    /\ cpc' = "done"
    /\ UNCHANGED <<start_date, lag_days, market_holidays, current_date,
                   days_counted>>

CalNext ==
    \/ CountStep
    \/ CountDone
    \/ RollStep
    \/ Return

InitCal == LedgerInit /\ CalInit /\ BondIdle /\ ToolIdle

NextCal == CalNext /\ UNCHANGED <<ledgerVars, bondVars, toolVars>>

SpecCal == InitCal /\ [][NextCal]_vars

(***************************************************************************)
(* Calendar dates of the cashflow scheduler                                *)
(*                                                                         *)
(* A datetime.date is a record [y, m, d].  Ordinal maps it to the day      *)
(* number used by next_market_day: day 0 is Monday 2024-01-01.             *)
(***************************************************************************)
IsLeap(y) == y % 4 = 0 /\ (y % 100 # 0 \/ y % 400 = 0)

DaysInMonth(y, m) ==
    IF m = 2 THEN (IF IsLeap(y) THEN 29 ELSE 28)
    ELSE IF m \in {4, 6, 9, 11} THEN 30 ELSE 31

\* date(y, m, d) raises ValueError unless the day exists
ValidDate(dt) == dt.m \in 1..12 /\ dt.d \in 1..DaysInMonth(dt.y, dt.m)

RECURSIVE DaysBeforeYear(_)
DaysBeforeYear(y) ==
    IF y = 2024 THEN 0
    ELSE IF y > 2024
    THEN DaysBeforeYear(y - 1) + (IF IsLeap(y - 1) THEN 366 ELSE 365)
    ELSE DaysBeforeYear(y + 1) - (IF IsLeap(y) THEN 366 ELSE 365)

RECURSIVE DaysBeforeMonth(_, _)
DaysBeforeMonth(y, m) ==
    IF m <= 1 THEN 0 ELSE DaysBeforeMonth(y, m - 1) + DaysInMonth(y, m - 1)

Ordinal(dt) == DaysBeforeYear(dt.y) + DaysBeforeMonth(dt.y, dt.m) + dt.d - 1

\* dt + relativedelta(months=n), n of either sign: the month moves and the
\* day is clipped to the length of the month reached
AddMonths(dt, n) ==
    LET idx == dt.y * 12 + (dt.m - 1) + n
        yy  == idx \div 12
        mm  == (idx % 12) + 1
    IN  [y |-> yy, m |-> mm, d |-> Min(dt.d, DaysInMonth(yy, mm))]

(***************************************************************************)
(* next_market_day as a function of its arguments (holiday_calculator.py)  *)
(***************************************************************************)
\* lines 18-23: the loop "while days_counted < lag_days"
RECURSIVE CountLoop(_, _, _)
CountLoop(d, counted, lag) ==
    IF counted < lag
    THEN CountLoop(d + 1, IF Counted(d + 1) THEN counted + 1 ELSE counted, lag)
    ELSE d

\* lines 26-27: the closing loop over weekends and holidays
RECURSIVE RollLoop(_)
RollLoop(d) == IF Rolling(d) THEN RollLoop(d + 1) ELSE d

next_market_day(d, lag) == RollLoop(CountLoop(d, 0, lag))

(***************************************************************************)
(* generate_coupon_dates of service/gsec/util/cashflow_generator.py        *)
(***************************************************************************)
\* lines 24-26
market_shifted(d) == next_market_day(d, 0)

\* lines 41-42: step forward until the date is after start
RECURSIVE FirstCouponDate(_, _, _)
FirstCouponDate(c, start, months) ==
    IF Ordinal(c) <= Ordinal(start)
    THEN FirstCouponDate(AddMonths(c, months), start, months)
    ELSE c

\* lines 44-48: the dates appended, before market_shifted is applied
RECURSIVE CouponLoop(_, _, _)
CouponLoop(c, maturity, months) ==
    IF Ordinal(c) < Ordinal(maturity)
    THEN <<c>> \o CouponLoop(AddMonths(c, months), maturity, months)
    ELSE <<>>

\* line 40: the anniversary in the year of start
Anniversary(start, maturity) == [y |-> start.y, m |-> maturity.m, d |-> maturity.d]

\* lines 34-48, the dates before shifting
UnshiftedCouponDates(start, maturity, freq) ==
    CouponLoop(FirstCouponDate(Anniversary(start, maturity), start, 12 \div freq),
               maturity, 12 \div freq)

\* lines 29-50 (the call is defined when the anniversary is a valid date)
generate_coupon_dates(start, maturity, freq) ==
    LET u == UnshiftedCouponDates(start, maturity, freq)
    IN  [i \in 1..Len(u) |-> market_shifted(Ordinal(u[i]))]

\* the start dates explored
StartDates == {[y |-> yy, m |-> mm, d |-> dd] :
                  yy \in {2024, 2025}, mm \in 1..12, dd \in {10, 20}}

\* the maturity dates explored: mid-month and month-end days, and a leap day
MaturityDates ==
    {dt \in {[y |-> 2026, m |-> mm, d |-> dd] : mm \in 1..12, dd \in {15, 30, 31}} :
        ValidDate(dt)}
    \cup {[y |-> 2028, m |-> 2, d |-> 29]}

Frequencies == {1, 2, 4}

\* the holiday sets explored with the scheduler: none, or one coupon day
CouponHolidays == {{}, {Ordinal([y |-> 2024, m |-> 7, d |-> 15])}}

\* the calendar holds only the holiday set during a scheduler run
CouponCalInit ==
    /\ market_holidays \in CouponHolidays
    /\ start_date = 0
    /\ lag_days = 0
    /\ current_date = 0
    /\ days_counted = 0
    /\ cpc = "idle"

\* a call generate_coupon_dates(cstart, maturity_date, coupon_frequency)
CouponInit ==
    /\ cstart \in StartDates
    /\ maturity_date \in MaturityDates
    /\ coupon_frequency \in Frequencies
    /\ Ordinal(cstart) < Ordinal(maturity_date)
    /\ unshifted = <<>>
    /\ coupon_dates = <<>>
    /\ gpc = "call"

\* line 40 raises ValueError: the anniversary does not exist in that year
CouponValueError ==
    /\ gpc = "call"
    /\ ~ ValidDate(Anniversary(cstart, maturity_date))
    /\ gpc' = "ValueError"
    /\ UNCHANGED <<cstart, maturity_date, coupon_frequency, unshifted,
                   coupon_dates>>

\* lines 34-50 run to the return
CouponReturn ==
    /\ gpc = "call"
    /\ ValidDate(Anniversary(cstart, maturity_date))
    /\ unshifted' =
          UnshiftedCouponDates(cstart, maturity_date, coupon_frequency)
    /\ coupon_dates' =
          generate_coupon_dates(cstart, maturity_date, coupon_frequency)
    /\ gpc' = "done"
    /\ UNCHANGED <<cstart, maturity_date, coupon_frequency>>

CouponNext ==
    \/ CouponValueError
    \/ CouponReturn

InitCoupon ==
    /\ LedgerInit /\ CouponCalInit /\ CouponInit
    /\ ScheduleIdle /\ XirrIdle /\ YtmIdle /\ ToolIdle

NextCoupon ==
    /\ CouponNext
    /\ UNCHANGED <<ledgerVars, calVars, scheduleVars, xirrVars, ytmVars,
                   toolVars>>

SpecCoupon == InitCoupon /\ [][NextCoupon]_vars

(***************************************************************************)
(* generate_cashflows and apply_coupon_and_principal of                    *)
(* service/gsec/util/cashflow_generator.py, for the rows of one symbol     *)
(*                                                                         *)
(* cf maps a date (its day number) to an entry; an entry is a dict, here a *)
(* function whose domain is the set of keys present.  Amounts are whole    *)
(* numbers; the instruments explored make the coupon division exact.       *)
(***************************************************************************)
\* config.py: trading days between a BUY and its quantity credit
QUANTITY_LAG_DAYS == 2

\* most rows of one symbol explored
MaxEvents == 2

\* val.get(k, 0)
DictGet(val, k) == IF k \in DOMAIN val THEN val[k] ELSE 0

\* val.get(k) is true
DictTrue(val, k) == k \in DOMAIN val /\ val[k] = TRUE

\* val[k] = v
DictPut(val, k, v) ==
    [x \in DOMAIN val \cup {k} |-> IF x = k THEN v ELSE val[x]]

\* c.setdefault(k, slot), as it leaves c
SetDefault(c, k, slot) == IF k \in DOMAIN c THEN c ELSE DictPut(c, k, slot)

\* lines 53-55
empty_txn_slot == [quantity |-> 0, transaction_amount |-> 0]

\* lines 58-60
empty_coupon_slot == [quantity |-> 0, coupon_date |-> TRUE]

\* line 204
maturity_slot == [quantity |-> 0, coupon_date |-> TRUE, maturity |-> TRUE]

\* the date of a day number
YearOf(n) ==
    CHOOSE yy \in 2024..2030 :
        DaysBeforeYear(yy) <= n /\ n < DaysBeforeYear(yy + 1)

MonthOf(n) ==
    LET yy == YearOf(n)
        r  == n - DaysBeforeYear(yy)
    IN  CHOOSE mm \in 1..12 :
            /\ DaysBeforeMonth(yy, mm) <= r
            /\ r < DaysBeforeMonth(yy, mm) + DaysInMonth(yy, mm)

DateOf(n) ==
    [y |-> YearOf(n), m |-> MonthOf(n),
     d |-> n - DaysBeforeYear(YearOf(n))
             - DaysBeforeMonth(YearOf(n), MonthOf(n)) + 1]

\* min(cf.keys()) and next(reversed(cf))
FirstKey(c) == CHOOSE a \in DOMAIN c : \A b \in DOMAIN c : a <= b

LastKey(c) == CHOOSE a \in DOMAIN c : \A b \in DOMAIN c : b <= a

\* mutant of qty_date: the quantity is credited on the trade date
qty_date_unlagged(event_date) == event_date

\* line 163
qty_date(event_date) == next_market_day(event_date, QUANTITY_LAG_DAYS)

\* lines 75-77
coupon_payment(qty) ==
    (face_value * qty * coupon_rate) \div (100 * coupon_frequency)

\* mutant of total_cashflow: the principal is left out of the total
total_cashflow_without_principal(val) ==
    DictGet(val, "coupon_payment") + DictGet(val, "transaction_amount")

\* lines 83-87
total_cashflow(val) ==
    DictGet(val, "coupon_payment") + DictGet(val, "principal_repayment")
        + DictGet(val, "transaction_amount")

\* the instruments explored: a maturity on a Wednesday with half-yearly
\* coupons and a maturity on a Saturday with quarterly coupons
Instruments ==
    { [maturity_date |-> [y |-> 2025, m |-> 1, d |-> 15],
       coupon_rate |-> 8, coupon_frequency |-> 2, face_value |-> 100],
      [maturity_date |-> [y |-> 2025, m |-> 3, d |-> 15],
       coupon_rate |-> 8, coupon_frequency |-> 4, face_value |-> 100] }

\* the event dates explored: around the first coupon, a later coupon and
\* the two maturities
EventDates ==
    {Ordinal(dt) : dt \in
        { [y |-> 2024, m |-> 1, d |-> 10], [y |-> 2024, m |-> 1, d |-> 11],
          [y |-> 2024, m |-> 7, d |-> 11], [y |-> 2024, m |-> 7, d |-> 15],
          [y |-> 2025, m |-> 1, d |-> 14], [y |-> 2025, m |-> 1, d |-> 15],
          [y |-> 2025, m |-> 3, d |-> 14] }}

Units == {1, 2}

\* the rows of one symbol: EVENT TYPE, EVENT DATE, UNITS, PRICE PER UNIT
EventRows ==
    [type : {"BUY", "SELL"}, date : EventDates, units : Units, price : {3}]
    \cup [type : {"BONUS"}, date : {Ordinal([y |-> 2024, m |-> 7, d |-> 11])},
          units : {1}, price : {3}]

Histories == UNION {[1..n -> EventRows] : n \in 1..MaxEvents}

\* generate_cashflows is called with the rows of one instrument
ScheduleInit ==
    /\ events \in Histories
    /\ \E i \in Instruments :
          /\ maturity_date = i.maturity_date
          /\ coupon_frequency = i.coupon_frequency
          /\ coupon_rate = i.coupon_rate
          /\ face_value = i.face_value
    /\ cf = <<>>
    /\ spc = "seed"
    /\ running_qty = 0
    /\ walked = {}
    /\ last_date = 0
    /\ seeded = <<>>
    /\ cstart = NoDate
    /\ unshifted = <<>>
    /\ coupon_dates = <<>>
    /\ gpc = "idle"

\* lines 139-141: a row dated after the maturity stops the run
SeedAfterMaturity ==
    /\ spc = "seed"
    /\ events # <<>>
    /\ Head(events).date > Ordinal(maturity_date)
    /\ spc' = "exit"
    /\ UNCHANGED <<events, cf, running_qty, walked, last_date, seeded,
                   coupon_rate, face_value, couponVars>>

\* lines 154-155 and 160-164: a BUY row
SeedBuy ==
    /\ spc = "seed"
    /\ events # <<>>
    /\ Head(events).date <= Ordinal(maturity_date)
    /\ Head(events).type = "BUY"
    /\ LET e  == Head(events)
           c1 == SetDefault(cf, e.date, empty_txn_slot)
           c2 == DictPut(c1, e.date,
                     DictPut(c1[e.date], "transaction_amount",
                         c1[e.date].transaction_amount - e.units * e.price))
           qd == qty_date(e.date)
           c3 == SetDefault(c2, qd, empty_txn_slot)
       IN  cf' = DictPut(c3, qd,
                     DictPut(c3[qd], "quantity", c3[qd].quantity + e.units))
    /\ events' = Tail(events)
    /\ UNCHANGED <<spc, running_qty, walked, last_date, seeded, coupon_rate,
                   face_value, couponVars>>

\* lines 154-155 and 171-173: a SELL row
SeedSell ==
    /\ spc = "seed"
    /\ events # <<>>
    /\ Head(events).date <= Ordinal(maturity_date)
    /\ Head(events).type = "SELL"
    /\ LET e  == Head(events)
           c1 == SetDefault(cf, e.date, empty_txn_slot)
           v1 == DictPut(c1[e.date], "quantity", c1[e.date].quantity - e.units)
       IN  cf' = DictPut(c1, e.date,
                     DictPut(v1, "transaction_amount",
                         v1.transaction_amount + e.units * e.price))
    /\ events' = Tail(events)
    /\ UNCHANGED <<spc, running_qty, walked, last_date, seeded, coupon_rate,
                   face_value, couponVars>>

\* lines 180-182: any other event type stops the run
SeedInvalidType ==
    /\ spc = "seed"
    /\ events # <<>>
    /\ Head(events).date <= Ordinal(maturity_date)
    /\ Head(events).type \notin {"BUY", "SELL"}
    /\ cf' = SetDefault(cf, Head(events).date, empty_txn_slot)
    /\ spc' = "exit"
    /\ UNCHANGED <<events, running_qty, walked, last_date, seeded,
                   coupon_rate, face_value, couponVars>>

\* lines 189-193: a negative quantity on the first date stops the run
NegativeInitialQuantity ==
    /\ spc = "seed"
    /\ events = <<>>
    /\ cf[FirstKey(cf)].quantity < 0
    /\ spc' = "exit"
    /\ UNCHANGED <<events, cf, running_qty, walked, last_date, seeded,
                   coupon_rate, face_value, couponVars>>

\* lines 189-205 and 67-68: the coupon and maturity entries are added and
\* apply_coupon_and_principal is entered
AddCoupons ==
    /\ spc = "seed"
    /\ events = <<>>
    /\ ~ (cf[FirstKey(cf)].quantity < 0)
    /\ ValidDate(Anniversary(DateOf(FirstKey(cf)), maturity_date))
    /\ LET first == DateOf(FirstKey(cf))
           cds   == generate_coupon_dates(first, maturity_date,
                                          coupon_frequency)
           c1    == [k \in DOMAIN cf \cup {cds[i] : i \in 1..Len(cds)} |->
                        IF k \in DOMAIN cf THEN cf[k] ELSE empty_coupon_slot]
           c2    == SetDefault(c1, market_shifted(Ordinal(maturity_date)),
                               maturity_slot)
       IN  /\ cstart' = first
           /\ unshifted' =
                 UnshiftedCouponDates(first, maturity_date, coupon_frequency)
           /\ coupon_dates' = cds
           /\ cf' = c2
           /\ seeded' = c2
           /\ last_date' = LastKey(c2)
    /\ running_qty' = 0
    /\ walked' = {}
    /\ spc' = "walk"
    /\ UNCHANGED <<events, coupon_rate, face_value, maturity_date,
                   coupon_frequency, gpc>>

\* lines 70-87: one iteration of the loop over cf.items()
WalkEntry ==
    /\ spc = "walk"
    /\ DOMAIN cf # walked
    /\ LET dt == CHOOSE a \in DOMAIN cf \ walked :
                     \A b \in DOMAIN cf \ walked : a <= b
           rq == running_qty + DictGet(cf[dt], "quantity")
           v1 == DictPut(cf[dt], "quantity", rq)
           v2 == IF rq > 0 /\ DictTrue(v1, "coupon_date")
                 THEN DictPut(v1, "coupon_payment", coupon_payment(rq))
                 ELSE v1
           v3 == IF dt = last_date /\ rq > 0
                 THEN DictPut(DictPut(v2, "principal_repayment",
                                      face_value * rq), "quantity", 0)
                 ELSE v2
       IN  /\ running_qty' = rq
           /\ cf' = DictPut(cf, dt,
                        DictPut(v3, "total_cashflow", total_cashflow(v3)))
           /\ walked' = walked \cup {dt}
    /\ UNCHANGED <<events, spc, last_date, seeded, coupon_rate, face_value,
                   couponVars>>

\* the loop is over: the schedule of the instrument is built
WalkDone ==
    /\ spc = "walk"
    /\ DOMAIN cf = walked
    /\ spc' = "done"
    /\ UNCHANGED <<events, cf, running_qty, walked, last_date, seeded,
                   coupon_rate, face_value, couponVars>>

ScheduleNext ==
    \/ SeedAfterMaturity
    \/ SeedBuy
    \/ SeedSell
    \/ SeedInvalidType
    \/ NegativeInitialQuantity
    \/ AddCoupons
    \/ WalkEntry
    \/ WalkDone

InitSchedule ==
    /\ LedgerInit /\ CouponCalInit /\ ScheduleInit /\ XirrIdle /\ YtmIdle
    /\ ToolIdle

NextSchedule ==
    /\ ScheduleNext
    /\ UNCHANGED <<ledgerVars, calVars, xirrVars, ytmVars, toolVars>>

SpecSchedule == InitSchedule /\ [][NextSchedule]_vars

(***************************************************************************)
(* xirr and forward_xirr of service/util/xirr_calculator.py                *)
(*                                                                         *)
(* scipy's newton is outside the repository: a call either returns a root  *)
(* or raises RuntimeError (no convergence within maxiter, or a zero        *)
(* derivative), and both outcomes are explored for every call.  The dates  *)
(* are day numbers in increasing order, as the callers pass them.          *)
(***************************************************************************)
\* last day number of a cashflow
MaxDay == 3

\* the cashflow amounts explored
FlowAmounts == {0 - 2, 0, 3}

PortfolioValues == {4, 5}

\* the outcomes of one newton call
NewtonOutcomes == {"root", "RuntimeError"}

\* the days of a set as an increasing list
RECURSIVE Ascending(_)
Ascending(S) ==
    IF S = {} THEN <<>>
    ELSE LET a == CHOOSE x \in S : \A z \in S : x <= z
         IN  <<a>> \o Ascending(S \ {a})

\* mutant of future: the cashflows dated today are kept
future_from_today(ds, cs, t) ==
    LET keep == {i \in 1..Len(ds) : ds[i] >= t}
        idx  == Ascending(keep)
    IN  [i \in 1..Len(idx) |-> <<ds[idx[i]], cs[idx[i]]>>]

\* line 48: the (date, cashflow) pairs with d.date() > start_date
future(ds, cs, t) ==
    LET keep == {i \in 1..Len(ds) : ds[i] > t}
        idx  == Ascending(keep)
    IN  [i \in 1..Len(idx) |-> <<ds[idx[i]], cs[idx[i]]>>]

\* xirr(dates, cashflows) or forward_xirr(dates, cashflows, portfolio_value)
\* is called; every caller leaves guess at its default 0.1
XirrInit ==
    /\ xmode \in {"xirr", "forward_xirr"}
    /\ \E S \in SUBSET (0..MaxDay) :
          /\ xdates = Ascending(S)
          /\ xflows \in [1..Cardinality(S) -> FlowAmounts]
    /\ xmode = "xirr" => xdates # <<>>
    /\ today \in 1..2
    /\ portfolio_value \in PortfolioValues
    /\ new_dates = <<>>
    /\ new_cashflows = <<>>
    /\ guesses = <<>>
    /\ outcomes = <<>>
    /\ xpc = "call"

\* xirr line 33: the solve with x0 = guess
XirrSolve ==
    /\ xmode = "xirr"
    /\ xpc = "call"
    /\ guesses' = Append(guesses, "0.1")
    /\ \E o \in NewtonOutcomes :
          /\ outcomes' = Append(outcomes, o)
          /\ xpc' = IF o = "root" THEN "returned" ELSE "except"
    /\ UNCHANGED <<xmode, xdates, xflows, today, portfolio_value, new_dates,
                   new_cashflows>>

\* mutant of XirrRetry: a failed retry is retried
XirrRetryAgain ==
    /\ xmode = "xirr"
    /\ xpc = "except"
    /\ Len(guesses) < 4
    /\ guesses' = Append(guesses, "0.2")
    /\ \E o \in NewtonOutcomes :
          /\ outcomes' = Append(outcomes, o)
          /\ xpc' = IF o = "root" THEN "returned" ELSE "except"
    /\ UNCHANGED <<xmode, xdates, xflows, today, portfolio_value, new_dates,
                   new_cashflows>>

\* xirr lines 34-36: the solve with x0 = 0.2 in the except clause; its
\* RuntimeError leaves xirr
XirrRetry ==
    /\ xmode = "xirr"
    /\ xpc = "except"
    /\ guesses' = Append(guesses, "0.2")
    /\ \E o \in NewtonOutcomes :
          /\ outcomes' = Append(outcomes, o)
          /\ xpc' = IF o = "root" THEN "returned" ELSE "raised"
    /\ UNCHANGED <<xmode, xdates, xflows, today, portfolio_value, new_dates,
                   new_cashflows>>

\* forward_xirr lines 45-51: no cashflow after today
ForwardNoFuture ==
    /\ xmode = "forward_xirr"
    /\ xpc = "call"
    /\ Len(future(xdates, xflows, today)) = 0
    /\ xpc' = "nan"
    /\ UNCHANGED <<xmode, xdates, xflows, today, portfolio_value, new_dates,
                   new_cashflows, guesses, outcomes>>

\* forward_xirr lines 45-72: the solver input is built and solved with
\* x0 = guess
ForwardSolve ==
    /\ xmode = "forward_xirr"
    /\ xpc = "call"
    /\ LET f == future(xdates, xflows, today)
       IN  /\ Len(f) # 0
           /\ new_dates' = <<today>> \o [i \in 1..Len(f) |-> f[i][1]]
           /\ new_cashflows' =
                 <<0 - portfolio_value>> \o [i \in 1..Len(f) |-> f[i][2]]
    /\ guesses' = Append(guesses, "0.1")
    /\ \E o \in NewtonOutcomes :
          /\ outcomes' = Append(outcomes, o)
          /\ xpc' = IF o = "root" THEN "returned" ELSE "except"
    /\ UNCHANGED <<xmode, xdates, xflows, today, portfolio_value>>

\* forward_xirr lines 73-74: the solve with x0 = 0.2 in the except clause
ForwardRetry ==
    /\ xmode = "forward_xirr"
    /\ xpc = "except"
    /\ guesses' = Append(guesses, "0.2")
    /\ \E o \in NewtonOutcomes :
          /\ outcomes' = Append(outcomes, o)
          /\ xpc' = IF o = "root" THEN "returned" ELSE "raised"
    /\ UNCHANGED <<xmode, xdates, xflows, today, portfolio_value, new_dates,
                   new_cashflows>>

XirrNext ==
    \/ XirrSolve
    \/ XirrRetry
    \/ ForwardNoFuture
    \/ ForwardSolve
    \/ ForwardRetry

InitXirr ==
    /\ LedgerInit /\ CalIdle /\ CouponIdle /\ ScheduleIdle /\ YtmIdle
    /\ ToolIdle
    /\ XirrInit

NextXirr ==
    /\ XirrNext
    /\ UNCHANGED <<ledgerVars, calVars, couponVars, scheduleVars, ytmVars,
                   toolVars>>

SpecXirr == InitXirr /\ [][NextXirr]_vars

(***************************************************************************)
(* calculate_gsec_ytm of service/gsec/util/ytm_calculator.py               *)
(*                                                                         *)
(* A float argument is <<v>>, or <<>> when it is missing (NaN).  ytm names *)
(* what is returned: "nan", the T-bill form, the stripped form or the root *)
(* of the coupon-bond solve.  maturity_date is of a supported type.        *)
(***************************************************************************)
NaN == <<>>

\* pd.isna(x)
isna(x) == x = NaN

Prices == {NaN, <<0 - 5>>, <<0>>, <<95>>, <<100>>}

CouponRates == {NaN, <<0 - 1>>, <<0>>, <<7>>}

DaysToMaturity == {0 - 30, 0, 1, 365}

\* calculate_gsec_ytm is called
YtmInit ==
    /\ price \in Prices
    /\ ytm_coupon_rate \in CouponRates
    /\ is_tbill \in BOOLEAN
    /\ is_stripped_gsec \in BOOLEAN
    /\ days_to_maturity \in DaysToMaturity
    /\ ytm_calls = <<>>
    /\ ytm = ""
    /\ ypc = "call"

\* line 94
PriceInvalid == IF isna(price) THEN TRUE ELSE price[1] <= 0

\* line 129
CouponInvalid ==
    IF isna(ytm_coupon_rate) THEN TRUE ELSE ytm_coupon_rate[1] <= 0

\* lines 94-95
YtmPriceInvalid ==
    /\ ypc = "call"
    /\ PriceInvalid
    /\ ytm' = "nan"
    /\ ypc' = "done"
    /\ UNCHANGED <<price, ytm_coupon_rate, is_tbill, is_stripped_gsec,
                   days_to_maturity, ytm_calls>>

\* mutant of YtmTbill: the coupon rate is checked before the T-bill form
YtmTbillChecksCoupon ==
    /\ ypc = "call"
    /\ ~ PriceInvalid
    /\ is_tbill
    /\ IF (IF days_to_maturity <= 0 THEN TRUE ELSE CouponInvalid)
       THEN ytm' = "nan" /\ ytm_calls' = ytm_calls
       ELSE ytm' = "tbill" /\ ytm_calls' = Append(ytm_calls, "__ytm_tbill")
    /\ ypc' = "done"
    /\ UNCHANGED <<price, ytm_coupon_rate, is_tbill, is_stripped_gsec,
                   days_to_maturity>>

\* lines 119-122
YtmTbill ==
    /\ ypc = "call"
    /\ ~ PriceInvalid
    /\ is_tbill
    /\ IF days_to_maturity <= 0
       THEN ytm' = "nan" /\ ytm_calls' = ytm_calls
       ELSE ytm' = "tbill" /\ ytm_calls' = Append(ytm_calls, "__ytm_tbill")
    /\ ypc' = "done"
    /\ UNCHANGED <<price, ytm_coupon_rate, is_tbill, is_stripped_gsec,
                   days_to_maturity>>

\* lines 125-126 and 13-17: years_to_maturity <= 0 exactly when
\* days_to_maturity <= 0
YtmStripped ==
    /\ ypc = "call"
    /\ ~ PriceInvalid
    /\ ~ is_tbill
    /\ is_stripped_gsec
    /\ ytm_calls' = Append(ytm_calls, "__ytm_stripped_gsec")
    /\ ytm' = IF days_to_maturity <= 0 THEN "nan" ELSE "stripped"
    /\ ypc' = "done"
    /\ UNCHANGED <<price, ytm_coupon_rate, is_tbill, is_stripped_gsec,
                   days_to_maturity>>

\* lines 129-130
YtmCouponInvalid ==
    /\ ypc = "call"
    /\ ~ PriceInvalid
    /\ ~ is_tbill
    /\ ~ is_stripped_gsec
    /\ CouponInvalid
    /\ ytm' = "nan"
    /\ ypc' = "done"
    /\ UNCHANGED <<price, ytm_coupon_rate, is_tbill, is_stripped_gsec,
                   days_to_maturity, ytm_calls>>

\* lines 133-143 and 40-41: __ytm_coupon_bond is entered and returns NaN
\* before solving, the settlement being at or after the maturity
YtmCouponBondExpired ==
    /\ ypc = "call"
    /\ ~ PriceInvalid
    /\ ~ is_tbill
    /\ ~ is_stripped_gsec
    /\ ~ CouponInvalid
    /\ days_to_maturity <= 0
    /\ ytm_calls' = Append(ytm_calls, "__ytm_coupon_bond")
    /\ ytm' = "nan"
    /\ ypc' = "done"
    /\ UNCHANGED <<price, ytm_coupon_rate, is_tbill, is_stripped_gsec,
                   days_to_maturity>>

\* lines 133-143 and 40-74: __ytm_coupon_bond runs newton; RuntimeError and
\* OverflowError become NaN
YtmCouponBond ==
    /\ ypc = "call"
    /\ ~ PriceInvalid
    /\ ~ is_tbill
    /\ ~ is_stripped_gsec
    /\ ~ CouponInvalid
    /\ days_to_maturity > 0
    /\ ytm_calls' = ytm_calls \o <<"__ytm_coupon_bond", "newton">>
    /\ \E o \in {"root", "RuntimeError", "OverflowError"} :
          ytm' = IF o = "root" THEN "root" ELSE "nan"
    /\ ypc' = "done"
    /\ UNCHANGED <<price, ytm_coupon_rate, is_tbill, is_stripped_gsec,
                   days_to_maturity>>

YtmNext ==
    \/ YtmPriceInvalid
    \/ YtmTbill
    \/ YtmStripped
    \/ YtmCouponInvalid
    \/ YtmCouponBondExpired
    \/ YtmCouponBond

InitYtm ==
    /\ LedgerInit /\ CalIdle /\ CouponIdle /\ ScheduleIdle /\ XirrIdle
    /\ ToolIdle
    /\ YtmInit

NextYtm ==
    /\ YtmNext
    /\ UNCHANGED <<ledgerVars, calVars, couponVars, scheduleVars, xirrVars,
                   toolVars>>

SpecYtm == InitYtm /\ [][NextYtm]_vars

(***************************************************************************)
(* calculate_price_for_target_xirr_binary of                               *)
(* service/util/xirr_calculator.py                                         *)
(*                                                                         *)
(* Prices are Python floats.  The floats of the bracket are modelled as    *)
(* the points of a uniform grid and a price is the number of its grid      *)
(* point: every price the search forms is a grid point, and the result of  *)
(* an operation that falls between two grid points is rounded to the       *)
(* nearer one, to the even one on a tie, as IEEE 754 does.  The tolerance  *)
(* is counted in half grid steps (tol2), so that a tolerance below the     *)
(* spacing of the floats can be told from one above it.                    *)
(*                                                                         *)
(* xirr is the oracle of the search: a probe meets the target, stays       *)
(* below it, returns None or NaN, or raises.  The threshold is the         *)
(* highest price at which a well-behaved oracle meets the target; monotone *)
(* records whether every probe so far answered as that oracle does.        *)
(***************************************************************************)
\* the highest grid point a bracket may end at
MaxPrice == 12

\* grid points in one hundredth, the unit round(best_price, 2) rounds to
CENT == 4

\* None, the value of best_price before a probe has qualified
None == <<>>

\* tolerance, in half grid steps
Tolerances2 == {1, 2, 8}

\* what one call of xirr inside a probe can do
ProbeOutcomes == {"meets", "below", "nan", "exception"}

\* the probes the search treats as failed (lines 117-120 and 128-131)
ProbeFailures == {"nan", "exception"}

\* (left + right) / 2 in floating point: the sum is exact when it is even;
\* an odd sum lies in the next binade, where it is rounded to a multiple of
\* four half steps before it is halved
Midpoint(l, r) ==
    LET s == l + r
    IN  IF s % 2 = 0 THEN s \div 2
        ELSE IF ((s - 1) \div 2) % 2 = 0 THEN (s - 1) \div 2
        ELSE (s + 1) \div 2

\* round(p, 2): the nearest hundredth, the even one on a tie
Round2(p) ==
    LET q == p \div CENT
        r == p % CENT
    IN  IF 2 * r < CENT THEN q * CENT
        ELSE IF 2 * r > CENT THEN (q + 1) * CENT
        ELSE IF q % 2 = 0 THEN q * CENT
        ELSE (q + 1) * CENT

\* the answer of the well-behaved oracle with threshold t at price p
Answer(p, t) == IF p <= t THEN "meets" ELSE "below"

\* lines 90-91: best_price = None; left, right = start, end
PriceInit ==
    \E s \in 0 .. MaxPrice, e \in 0 .. MaxPrice, t2 \in Tolerances2,
       t \in (0 - 1) .. (MaxPrice + 1) :
        /\ s < e
        /\ search = [pc |-> "end_probe", start |-> s, end |-> e,
                     tol2 |-> t2, threshold |-> t, left |-> s, right |-> e,
                     best_price |-> None, mid |-> None, irr |-> "",
                     monotone |-> TRUE, failed |-> FALSE, result |-> None]

\* lines 94-106: the probe at end; a qualifying end is returned as it is,
\* a failing probe is passed over
ProbeEnd ==
    /\ search.pc = "end_probe"
    /\ \E o \in ProbeOutcomes :
        search' =
            [search EXCEPT
                !.irr = o,
                !.monotone = (o = Answer(search.end, search.threshold)),
                !.pc = IF o = "meets" THEN "returned" ELSE "loop",
                !.result = IF o = "meets" THEN <<search.end>> ELSE None]

\* lines 109-116: the loop test holds, mid is formed and probed
Probe ==
    /\ search.pc = "loop"
    /\ 2 * (search.right - search.left) > search.tol2
    /\ \E o \in ProbeOutcomes :
        LET m == Midpoint(search.left, search.right)
        IN  search' =
                [search EXCEPT
                    !.mid = m,
                    !.irr = o,
                    !.monotone = (@ /\ o = Answer(m, search.threshold)),
                    !.pc = "probed"]

\* mutant of Update: a probe that raises ends the search with nothing
UpdateStopsOnException ==
    /\ search.pc = "probed"
    /\ search' =
        IF search.irr = "meets"
        THEN [search EXCEPT !.best_price = <<search.mid>>,
                            !.left = search.mid,
                            !.failed = FALSE,
                            !.pc = "loop"]
        ELSE IF search.irr = "exception"
        THEN [search EXCEPT !.failed = TRUE, !.result = None,
                            !.pc = "returned"]
        ELSE [search EXCEPT !.right = search.mid,
                            !.failed = (@ \/ search.irr \in ProbeFailures),
                            !.pc = "loop"]

\* lines 117-131: a qualifying probe is recorded and the lower bound moves
\* to it; on every other probe the upper bound moves to it.  failed records
\* that a probe has failed since best_price was last set.
Update ==
    /\ search.pc = "probed"
    /\ search' =
        IF search.irr = "meets"
        THEN [search EXCEPT !.best_price = <<search.mid>>,
                            !.left = search.mid,
                            !.failed = FALSE,
                            !.pc = "loop"]
        ELSE [search EXCEPT !.right = search.mid,
                            !.failed = (@ \/ search.irr \in ProbeFailures),
                            !.pc = "loop"]

\* lines 109 and 133-135: the loop test fails; best_price is rounded when
\* there is one, and returned
LoopExit ==
    /\ search.pc = "loop"
    /\ ~ (2 * (search.right - search.left) > search.tol2)
    /\ search' =
        [search EXCEPT
            !.result = IF search.best_price = None THEN None
                       ELSE <<Round2(search.best_price[1])>>,
            !.pc = "returned"]

PriceNext ==
    \/ ProbeEnd
    \/ Probe
    \/ Update
    \/ LoopExit

InitPrice ==
    /\ LedgerInit /\ CalIdle /\ BondIdle /\ CouponBondIdle /\ BatchIdle
    /\ PoolIdle /\ SettleIdle
    /\ PriceInit

NextPrice ==
    /\ PriceNext
    /\ UNCHANGED <<ledgerVars, calVars, bondVars, bond, batch, pool,
                   settle>>

SpecPrice == InitPrice /\ [][NextPrice]_vars

(***************************************************************************)
(* __ytm_coupon_bond of service/gsec/util/ytm_calculator.py ("gsec") and   *)
(* of service/util/ytm_calculator.py ("util")                              *)
(*                                                                         *)
(* The coupon rate is held in percent and the coupon per period C in       *)
(* hundredths of a currency unit; days is (maturity_date -                 *)
(* settlement_date).days.  newton is an oracle: it returns a root or       *)
(* raises RuntimeError (no convergence) or OverflowError.                  *)
(***************************************************************************)
\* the two modules that define the routine
Implementations == {"gsec", "util"}

BondPrices == {0 - 1, 0, 98}
BondCouponRates == {0 - 1, 0, 6}
BondFaceValues == {100}
BondDays == {0 - 30, 0, 1, 182, 183, 365, 366, 730}
BondFrequencies == {1, 2, 4}

\* how newton(f, x0=coupon_rate) can end
BondNewtonOutcomes == {"root", "RuntimeError", "OverflowError"}

\* mutant of Ceil: the period count is rounded down
Floor(a, b) == a \div b

\* np.ceil(a / b) for b > 0
Ceil(a, b) == 0 - ((0 - a) \div b)

\* gsec line 40: price <= 0 or coupon_rate < 0 or settlement_date >=
\* maturity_date
BondInvalid(b) == b.price <= 0 \/ b.coupon_rate < 0 \/ b.days <= 0

CouponBondInit ==
    \E i \in Implementations, p \in BondPrices, c \in BondCouponRates,
       fv \in BondFaceValues, dd \in BondDays, fq \in BondFrequencies :
        bond = [pc |-> "call", impl |-> i, price |-> p, coupon_rate |-> c,
                face_value |-> fv, days |-> dd, coupon_frequency |-> fq,
                n_periods |-> 0, C |-> 0, coupons |-> <<>>,
                principal_at |-> 0, outcome |-> "", result |-> ""]

\* gsec lines 40-41: invalid inputs return NaN before anything is computed
CouponBondInvalid ==
    /\ bond.pc = "call"
    /\ bond.impl = "gsec"
    /\ BondInvalid(bond)
    /\ bond' = [bond EXCEPT !.result = "nan", !.pc = "done"]

\* gsec lines 43-68, util lines 34-44: the period count, the coupon per
\* period and the terms of f: C at t = 1 .. n_periods and face_value at
\* n_periods.  The util module comes here with any inputs.
CouponBondPeriods ==
    /\ bond.pc = "call"
    /\ bond.impl = "util" \/ ~ BondInvalid(bond)
    /\ LET n == Ceil(bond.days * bond.coupon_frequency, 365)
           c == (bond.coupon_rate * bond.face_value)
                    \div bond.coupon_frequency
       IN  bond' = [bond EXCEPT !.n_periods = n,
                                !.C = c,
                                !.coupons = [t \in 1 .. n |-> c],
                                !.principal_at = n,
                                !.pc = "newton"]

\* gsec lines 70-74: newton inside try; RuntimeError and OverflowError
\* become NaN
CouponBondNewtonGuarded ==
    /\ bond.pc = "newton"
    /\ bond.impl = "gsec"
    /\ \E o \in BondNewtonOutcomes :
        bond' = [bond EXCEPT !.outcome = o,
                             !.result = IF o = "root" THEN "ytm" ELSE "nan",
                             !.pc = "done"]

\* util lines 46-48: newton without try; what it raises leaves the routine
CouponBondNewton ==
    /\ bond.pc = "newton"
    /\ bond.impl = "util"
    /\ \E o \in BondNewtonOutcomes :
        bond' = [bond EXCEPT !.outcome = o,
                             !.result = IF o = "root" THEN "ytm" ELSE o,
                             !.pc = IF o = "root" THEN "done" ELSE "raised"]

CouponBondNext ==
    \/ CouponBondInvalid
    \/ CouponBondPeriods
    \/ CouponBondNewtonGuarded
    \/ CouponBondNewton

InitCouponBond ==
    /\ LedgerInit /\ CalIdle /\ BondIdle /\ PriceIdle /\ BatchIdle
    /\ PoolIdle /\ SettleIdle
    /\ CouponBondInit

NextCouponBond ==
    /\ CouponBondNext
    /\ UNCHANGED <<ledgerVars, calVars, bondVars, search, batch, pool,
                   settle>>

SpecCouponBond == InitCouponBond /\ [][NextCouponBond]_vars

(***************************************************************************)
(* The XIRR section of generate_cashflows,                                 *)
(* service/gsec/util/cashflow_generator.py lines 237-257                   *)
(*                                                                         *)
(* xirr and forward_xirr are taken by what a call of them can do: xirr     *)
(* returns a value or raises RuntimeError when newton fails for both       *)
(* guesses; forward_xirr returns a value, returns NaN when no cashflow     *)
(* lies in the future, or raises RuntimeError.                             *)
(***************************************************************************)
\* the keys of symbol_to_cashflow_map, in insertion order
SymbolLists == {<<"A">>, <<"A", "B">>, <<"A", "B", "C">>}

XirrCallOutcomes == {"value", "RuntimeError"}
ForwardCallOutcomes == {"value", "nan", "RuntimeError"}

\* lines 125-126: xirr_per_instrument = {}; forward_xirr_per_instrument = {}
BatchInit ==
    \E l \in SymbolLists :
        batch = [pc |-> "instruments", symbols |-> l, todo |-> l,
                 xirr_per_instrument |-> <<>>,
                 forward_xirr_per_instrument |-> <<>>,
                 portfolio_xirr |-> "", portfolio_forward_xirr |-> "",
                 failed |-> {}]

\* lines 237-247: one turn of the loop over the instruments; when either
\* call raises, both yields of the instrument become NaN
InstrumentYields ==
    /\ batch.pc = "instruments"
    /\ batch.todo # <<>>
    /\ \E ox \in XirrCallOutcomes, of \in ForwardCallOutcomes :
        LET symbol == Head(batch.todo)
            fails == ox = "RuntimeError" \/ of = "RuntimeError"
        IN  batch' =
                [batch EXCEPT
                    !.todo = Tail(@),
                    !.xirr_per_instrument =
                        DictPut(@, symbol, IF fails THEN "nan" ELSE ox),
                    !.forward_xirr_per_instrument =
                        DictPut(@, symbol, IF fails THEN "nan" ELSE of),
                    !.failed = IF fails THEN @ \cup {symbol} ELSE @]

\* lines 249-252: the portfolio XIRR, called outside any try
PortfolioXirr ==
    /\ batch.pc = "instruments"
    /\ batch.todo = <<>>
    /\ \E o \in XirrCallOutcomes :
        batch' = IF o = "RuntimeError"
                 THEN [batch EXCEPT !.pc = "raised"]
                 ELSE [batch EXCEPT !.portfolio_xirr = o,
                                    !.pc = "portfolio_forward"]

\* lines 253-257: the portfolio forward XIRR, called outside any try
PortfolioForwardXirr ==
    /\ batch.pc = "portfolio_forward"
    /\ \E o \in ForwardCallOutcomes :
        batch' = IF o = "RuntimeError"
                 THEN [batch EXCEPT !.pc = "raised"]
                 ELSE [batch EXCEPT !.portfolio_forward_xirr = o,
                                    !.pc = "done"]

BatchNext ==
    \/ InstrumentYields
    \/ PortfolioXirr
    \/ PortfolioForwardXirr

InitBatch ==
    /\ LedgerInit /\ CalIdle /\ BondIdle /\ PriceIdle /\ CouponBondIdle
    /\ PoolIdle /\ SettleIdle
    /\ BatchInit

NextBatch ==
    /\ BatchNext
    /\ UNCHANGED <<ledgerVars, calVars, bondVars, search, bond, pool,
                   settle>>

SpecBatch == InitBatch /\ [][NextBatch]_vars

(***************************************************************************)
(* generate_gsec_portfolio_df and compute_for_commodity of                 *)
(* service/portfolio/dashboard/gsec_data.py                                *)
(*                                                                         *)
(* executor.map submits one call of compute_for_commodity per commodity;   *)
(* the calls run on threads of the pool and their steps interleave.  The   *)
(* main thread takes the results in the order of the commodities.  Each    *)
(* call holds its register data, its SortedDict and its totals in local    *)
(* variables; they make up the frame of the worker.  The register entries  *)
(* carry dates; the coupon entries and yields a call adds after its loop   *)
(* are computed from its own SortedDict alone and are left out.            *)
(***************************************************************************)
\* the commodity lists explored; X has no row in GSEC_DETAILS_FILE
CommodityLists ==
    {<<"A", "B">>, <<"B", "A">>, <<"A", "B", "C">>, <<"A", "X">>}

\* the index of gsec_maturity_date_override_df
GsecDetails == {"A", "B", "C"}

\* entries of the register of one commodity: Thursday 2024-01-04 or Friday
\* 2024-01-05
RegisterEntries == [date : {3, 4}, quantity : {1, 2}, amount : {5}]

\* the register of one commodity: one entry, or two in the order of time
PoolRegisters ==
    {<<e>> : e \in RegisterEntries}
    \cup {<<e1, e2>> : e1 \in {e \in RegisterEntries : e.quantity = 1},
                       e2 \in {e \in RegisterEntries : e.date = 4}}

\* lines 30-32, for a value that is a date already
normalize_date(date_value) == next_market_day(date_value, QUANTITY_LAG_DAYS)

\* a call that has not begun
QueuedWorker(c) ==
    [pc |-> "queued", commodity |-> c, register_data |-> <<>>,
     cashflow_dates_and_quantity |-> <<>>, total_investment |-> 0,
     total_quantity |-> 0]

\* lines 36-43: the register is read, the locals are initialised
StartedWorker(c, data) ==
    [pc |-> "loop", commodity |-> c, register_data |-> data,
     cashflow_dates_and_quantity |-> <<>>, total_investment |-> 0,
     total_quantity |-> 0]

\* lines 44-47 and 56-57: the entry is taken off the register data and
\* added to the totals of the frame w
EntryApplied(w, entry) ==
    [w EXCEPT
        !.register_data = Tail(@),
        !.total_investment = @ + entry.amount,
        !.total_quantity = @ + entry.quantity]

\* lines 49-55: the SortedDict sd after the entry
SlotAdded(sd, entry) ==
    LET date_obj == normalize_date(entry.date)
        slot == SetDefault(sd, date_obj, empty_txn_slot)[date_obj]
    IN  DictPut(sd, date_obj,
                [quantity |-> slot.quantity + entry.quantity,
                 transaction_amount |->
                    slot.transaction_amount - entry.amount])

\* lines 59-61 and 91-99: the call exits or hands back its result
Outcome(w) ==
    IF w.commodity \notin GsecDetails
    THEN [w EXCEPT !.pc = "exit"]
    ELSE [w EXCEPT !.pc = "done"]

\* the pair (xirr_data, cashflow_dates_and_quantity) of a finished call
ResultOf(w) ==
    [SYMBOL |-> w.commodity, INVESTMENT |-> w.total_investment,
     QUANTITY |-> w.total_quantity,
     cashflows |-> w.cashflow_dates_and_quantity]

\* lines 163-176: the commodities are listed and every call is submitted
PoolInit ==
    \E l \in CommodityLists :
        \E reg \in [{l[i] : i \in DOMAIN l} -> PoolRegisters] :
            pool = [pc |-> "map", commodities |-> l, register |-> reg,
                    workers |-> [i \in DOMAIN l |-> QueuedWorker(l[i])],
                    xirr_output |-> <<>>]

\* lines 36-43, on the thread of call i
WorkerStart(i) ==
    /\ pool.pc = "map"
    /\ pool.workers[i].pc = "queued"
    /\ pool' = [pool EXCEPT
                    !.workers[i] =
                        StartedWorker(@.commodity, pool.register[@.commodity])]

\* mutant of WorkerEntry: the calls write to one SortedDict, that of the
\* first call
WorkerEntryShared(i) ==
    /\ pool.pc = "map"
    /\ pool.workers[i].pc = "loop"
    /\ pool.workers[i].register_data # <<>>
    /\ LET w == pool.workers[i]
           entry == Head(w.register_data)
           sd == pool.workers[1].cashflow_dates_and_quantity
           ws == [pool.workers EXCEPT
                    ![i] = EntryApplied(w, entry)]
       IN  pool' = [pool EXCEPT
                        !.workers =
                            [ws EXCEPT
                                ![1].cashflow_dates_and_quantity =
                                    SlotAdded(sd, entry)]]

\* lines 44-57, on the thread of call i: one turn of the loop
WorkerEntry(i) ==
    /\ pool.pc = "map"
    /\ pool.workers[i].pc = "loop"
    /\ pool.workers[i].register_data # <<>>
    /\ LET w == pool.workers[i]
           entry == Head(w.register_data)
           sd == w.cashflow_dates_and_quantity
           ws == [pool.workers EXCEPT
                    ![i] = EntryApplied(w, entry)]
       IN  pool' = [pool EXCEPT
                        !.workers =
                            [ws EXCEPT
                                ![i].cashflow_dates_and_quantity =
                                    SlotAdded(sd, entry)]]

\* lines 59-99, on the thread of call i: sys.exit for a commodity without
\* details, the result otherwise
WorkerFinish(i) ==
    /\ pool.pc = "map"
    /\ pool.workers[i].pc = "loop"
    /\ pool.workers[i].register_data = <<>>
    /\ pool' = [pool EXCEPT !.workers[i] = Outcome(@)]

\* line 177: the main thread takes the next result, in the order of the
\* commodities; the exception of a call is raised in the main thread
Collect ==
    /\ pool.pc = "map"
    /\ Len(pool.xirr_output) < Len(pool.commodities)
    /\ LET w == pool.workers[Len(pool.xirr_output) + 1]
       IN  /\ w.pc \in {"done", "exit"}
           /\ pool' =
                IF w.pc = "exit"
                THEN [pool EXCEPT !.pc = "raised"]
                ELSE [pool EXCEPT !.xirr_output = Append(@, ResultOf(w))]

\* lines 177-179: every result is taken; the list is returned
PoolReturn ==
    /\ pool.pc = "map"
    /\ Len(pool.xirr_output) = Len(pool.commodities)
    /\ pool' = [pool EXCEPT !.pc = "done"]

PoolNext ==
    \/ \E i \in DOMAIN pool.workers : WorkerStart(i)
    \/ \E i \in DOMAIN pool.workers : WorkerEntry(i)
    \/ \E i \in DOMAIN pool.workers : WorkerFinish(i)
    \/ Collect
    \/ PoolReturn

InitPool ==
    /\ LedgerInit /\ CalIdle /\ BondIdle /\ PriceIdle /\ CouponBondIdle
    /\ BatchIdle /\ SettleIdle
    /\ PoolInit

NextPool ==
    /\ PoolNext
    /\ UNCHANGED <<ledgerVars, calVars, bondVars, search, bond, batch,
                   settle>>

SpecPool == InitPool /\ [][NextPool]_vars

(***************************************************************************)
(* build_gsec_cashflows of service/gsec/util/cashflow_generator.py         *)
(*                                                                         *)
(* today is date.today(), a day number like every date of the calendar;    *)
(* cf maps a date to the cashflow of that date.                            *)
(***************************************************************************)
\* date.today(): the days of two weeks from Monday 2024-01-01
Todays == 0 .. 13

\* the holiday sets explored: none, a Wednesday, the Monday after the first
\* weekend, a Thursday and Friday
SettleHolidays == {{}, {2}, {7}, {3, 4}}

\* row["MATURITY DATE"]
SettleMaturities ==
    {[y |-> 2024, m |-> 7, d |-> 15], [y |-> 2025, m |-> 1, d |-> 15]}

\* row["COUPON RATE"], in percent
SettleCouponRates == {6, 8}

\* trade_date + timedelta(days=n)
timedelta_days(dt, n) == dt + n

\* sorted(keys)
RECURSIVE sorted(_)
sorted(keys) ==
    IF keys = {} THEN <<>>
    ELSE LET first == CHOOSE a \in keys : \A b \in keys : a <= b
         IN  <<first>> \o sorted(keys \ {first})

\* the calendar holds only the holiday set during the call
SettleCalInit ==
    /\ market_holidays \in SettleHolidays
    /\ start_date = 0
    /\ lag_days = 0
    /\ current_date = 0
    /\ days_counted = 0
    /\ cpc = "idle"

\* lines 96-101: the row is read; coupon_frequency = 2, face_value = 100
SettleInit ==
    \E t \in Todays, md \in SettleMaturities, cr \in SettleCouponRates :
        settle = [pc |-> "call", trade_date |-> t, maturity_date |-> md,
                  coupon_rate |-> cr, coupon_frequency |-> 2,
                  face_value |-> 100, settlement_date |-> 0, cf |-> <<>>,
                  dates |-> <<>>, cashflows |-> <<>>]

\* lines 102-104: the settlement date is seeded with cashflow 0
SeedSettlement ==
    /\ settle.pc = "call"
    /\ LET settlement_date ==
            market_shifted(timedelta_days(settle.trade_date,
                                          QUANTITY_LAG_DAYS))
       IN  settle' = [settle EXCEPT
                        !.settlement_date = settlement_date,
                        !.cf = DictPut(<<>>, settlement_date, 0),
                        !.pc = "coupons"]

\* lines 112-113: cf[d] = cf.get(d, 0) + coupon_amount for every d of ds
RECURSIVE AddCouponAmounts(_, _, _)
AddCouponAmounts(c, ds, amount) ==
    IF ds = <<>> THEN c
    ELSE AddCouponAmounts(DictPut(c, Head(ds), DictGet(c, Head(ds)) + amount),
                          Tail(ds), amount)

\* lines 106-116: every coupon date gets the coupon, the shifted maturity
\* the coupon and the face value
SettleCoupons ==
    /\ settle.pc = "coupons"
    /\ LET coupon_amount ==
            (settle.face_value * settle.coupon_rate)
                \div (100 * settle.coupon_frequency)
           cds == generate_coupon_dates(DateOf(settle.settlement_date),
                                        settle.maturity_date,
                                        settle.coupon_frequency)
           c1 == AddCouponAmounts(settle.cf, cds, coupon_amount)
           shifted_maturity == market_shifted(Ordinal(settle.maturity_date))
       IN  settle' = [settle EXCEPT
                        !.cf = DictPut(c1, shifted_maturity,
                                       DictGet(c1, shifted_maturity)
                                           + coupon_amount
                                           + settle.face_value),
                        !.pc = "sort"]

\* lines 118-121: the dates in order and their cashflows
SettleReturn ==
    /\ settle.pc = "sort"
    /\ LET ds == sorted(DOMAIN settle.cf)
       IN  settle' = [settle EXCEPT
                        !.dates = ds,
                        !.cashflows = [i \in DOMAIN ds |-> settle.cf[ds[i]]],
                        !.pc = "done"]

SettleNext ==
    \/ SeedSettlement
    \/ SettleCoupons
    \/ SettleReturn

InitSettle ==
    /\ LedgerInit /\ SettleCalInit /\ BondIdle /\ PriceIdle /\ CouponBondIdle
    /\ BatchIdle /\ PoolIdle
    /\ SettleInit

NextSettle ==
    /\ SettleNext
    /\ UNCHANGED <<ledgerVars, calVars, bondVars, search, bond, batch,
                   pool>>

SpecSettle == InitSettle /\ [][NextSettle]_vars

(***************************************************************************)
(* Properties of the lot ledger                                            *)
(***************************************************************************)
\* the SELL row being matched, and the deque of its bucket
CurSell == Head(rows)
CurBucket == lots[CurSell.key]

\* C1 - Lot conservation: at every point of a run, for every bucket, the sum
\* of the quantities of the lots in the bucket equals the quantity bought so
\* far minus the quantity sold so far, and it is never negative.
C1_LotConservation ==
    \A k \in Keys :
        /\ SumQty(lots[k]) = bought[k] - sold[k]
        /\ SumQty(lots[k]) >= 0

\* a bucket that was bought into and sold from, with two lots left, while
\* the second yearly file is being processed
C1_Witness ==
    \E k \in Keys :
        /\ written # {}
        /\ sold[k] > 0
        /\ Len(lots[k]) >= 2
        /\ bought[k] > sold[k]

\* a SELL is being matched whose quantity exceeds what its bucket held when
\* it began (what the bucket holds now plus what the SELL matched so far)
Oversold ==
    /\ pc = "sell"
    /\ CurSell.qty > SumQty(CurBucket) + (CurSell.qty - remaining)

\* C2 - A SELL whose quantity exceeds the quantity held by its bucket never
\* completes and never lets the run go on to another row: every step it
\* takes either matches more of it or is the exit with the insufficient
\* inventory error, and once the bucket is empty the step is that exit.
C2_OversoldIsFatal ==
    [][Oversold =>
          /\ pc' \in {"sell", "exit"}
          /\ pc' = "sell" => (rows' = rows /\ Oversold')
          /\ pc' = "exit" => fatal' = "insufficient inventory"
          /\ CurBucket = <<>> => pc' = "exit"]_vars

\* the run has exited on a SELL that had been matched in part
C2_Witness ==
    /\ pc = "exit"
    /\ fatal = "insufficient inventory"
    /\ CurSell.qty > remaining
    /\ remaining > 0

\* C3 - Selection policy: on every selection step FIFO selects the lot of
\* the smallest creation index, LIFO the lot of the largest, HIFO a lot of
\* maximal cost per unit and among those the one of the smallest creation
\* index; the selected lot has remaining quantity > 0.
C3_SelectionPolicy ==
    (pc = "sell" /\ remaining > 0 /\ CurBucket # <<>>) =>
        LET b == CurBucket
            m == CurSell.method
            sel == b[select_lot(b, m)]
        IN /\ sel.qty > 0
           /\ m = "FIFO" => \A j \in 1..Len(b) : sel.id <= b[j].id
           /\ m = "LIFO" => \A j \in 1..Len(b) : sel.id >= b[j].id
           /\ m = "HIFO" =>
                 /\ \A j \in 1..Len(b) : b[j].cost <= sel.cost
                 /\ \A j \in 1..Len(b) :
                       b[j].cost = sel.cost => sel.id <= b[j].id

\* HIFO selects among three lots: the oldest is cheaper, the two newer ones
\* tie at the maximal cost
C3_Witness ==
    /\ pc = "sell"
    /\ remaining > 0
    /\ CurSell.method = "HIFO"
    /\ Len(CurBucket) = 3
    /\ CurBucket[1].cost < CurBucket[2].cost
    /\ CurBucket[2].cost = CurBucket[3].cost

\* positions of the lots of b that b2 no longer holds with the same quantity
Hit(b, b2) ==
    {i \in 1..Len(b) :
        ~ \E j \in 1..Len(b2) : b2[j].id = b[i].id /\ b2[j].qty = b[i].qty}

\* total quantity of the disposal lines that end the list ls
RECURSIVE TrailingDisposals(_)
TrailingDisposals(ls) ==
    IF ls = <<>> \/ ls[Len(ls)].t # "disposal" THEN 0
    ELSE ls[Len(ls)].qty + TrailingDisposals(SubSeq(ls, 1, Len(ls) - 1))

\* C4 - Every disposal line takes min(remaining quantity of the selected
\* lot, quantity still needed) from exactly one lot, carries the cost per
\* unit that lot was created with and the sale price of the SELL, and when
\* the SELL completes the quantities of its disposal lines sum to the sell
\* quantity.
C4_DisposalLines ==
    [][/\ (pc = "sell" /\ pc' = "sell" /\ lines' # lines) =>
            LET b == CurBucket
                d == lines'[Len(lines')]
                hit == Hit(b, lots'[CurSell.key])
            IN /\ lines' = Append(lines, d)
               /\ d.t = "disposal"
               /\ Cardinality(hit) = 1
               /\ \A i \in hit :
                     /\ d.qty = IF b[i].qty <= remaining
                                THEN b[i].qty ELSE remaining
                     /\ d.cost = b[i].cost0
               /\ d.price = fmt(CurSell.amt, CurSell.qty)
               /\ remaining' = remaining - d.qty
       /\ (pc = "sell" /\ pc' = "row") =>
            TrailingDisposals(lines) = CurSell.qty]_vars

\* a SELL has completed with two disposal lines of different cost
C4_Witness ==
    /\ pc = "row"
    /\ Len(lines) >= 3
    /\ lines[Len(lines)].t = "cash"
    /\ lines[Len(lines) - 1].t = "disposal"
    /\ lines[Len(lines) - 2].t = "disposal"
    /\ lines[Len(lines) - 1].cost # lines[Len(lines) - 2].cost

\* C5 - Lot life cycle: after every step every stored lot has a quantity
\* > 0; a lot that stays in its bucket never gains quantity and keeps the
\* cost per unit it was created with; a lot leaves its bucket only in the
\* step whose disposal line takes all that remained of it, and every other
\* lot of the bucket stays as it was.
C5_LotLifeCycle ==
    [][\A k \in Keys :
          LET b == lots[k]
              b2 == lots'[k]
          IN /\ \A j \in 1..Len(b2) : b2[j].qty > 0
             /\ \A i \in 1..Len(b) : \A j \in 1..Len(b2) :
                   b2[j].id = b[i].id =>
                      /\ b2[j].qty <= b[i].qty
                      /\ b2[j].cost = b[i].cost
                      /\ b2[j].cost = b2[j].cost0
             /\ \A i \in 1..Len(b) :
                   (~ \E j \in 1..Len(b2) : b2[j].id = b[i].id) =>
                      /\ pc = "sell"
                      /\ CurSell.key = k
                      /\ lines' = Append(lines, lines'[Len(lines')])
                      /\ lines'[Len(lines')].qty = b[i].qty
                      /\ lines'[Len(lines')].cost = b[i].cost
                      /\ remaining' = remaining - b[i].qty
                      /\ Hit(b, b2) = {i}]_vars

\* of two lots created, the newer one was used up and removed and the older
\* one is still held with part of its quantity
C5_Witness ==
    \E k \in Keys :
        /\ nextId = 3
        /\ Len(lots[k]) = 1
        /\ lots[k][1].id = 1
        /\ lots[k][1].qty = 1
        /\ sold[k] = 2

\* C6 - Single-lot history: in a bucket that exactly one BUY went into, one
\* matching step of a SELL gives the same disposal line, the same quantity
\* still needed and the same bucket under FIFO, LIFO and HIFO, whatever the
\* SELL and whatever was sold before; so every sequence of SELLs gives the
\* same disposal records and buckets under the three policies.
C6_SingleLotEquivalence ==
    \A k \in Keys :
        buys[k] = 1 =>
            /\ Len(lots[k]) <= 1
            /\ lots[k] # <<>> =>
                  \A r \in SellRows : \A rem \in 1..r.qty :
                      r.key = k =>
                          SellIter(lots[k], rem, r) =
                             SellIter(lots[k], rem, [r EXCEPT !.method = "FIFO"])

\* a later SELL of a sequence is being matched under HIFO against the lot
\* of the only BUY, part of which was sold before
C6_Witness ==
    /\ pc = "sell"
    /\ remaining > 0
    /\ CurSell.method = "HIFO"
    /\ buys[CurSell.key] = 1
    /\ sold[CurSell.key] >= 1
    /\ CurBucket # <<>>

\* C7 - Replay order: over the whole run the rows are applied in
\* non-decreasing date order, and among rows of one date BUYs before SELLs
\* before the other rows: the row about to be applied never sorts before the
\* row applied last.
C7_ReplayOrder ==
    (pc = "row" /\ rows # <<>>) =>
        KeyLeq(lastKey, transaction_sort_key(Head(rows)))

\* C8 - A run that ends in a fatal error has written no ledger file.
C8_NoPartialOutput ==
    pc = "exit" => written = {}

(***************************************************************************)
(* Properties of the market calendar (checked under SpecCal)               *)
(***************************************************************************)
\* a trading day: Monday to Friday and no holiday
TradingDay(d) == weekday(d) \notin {5, 6} /\ d \notin market_holidays

\* C9 - next_market_day returns a trading day not earlier than start_date;
\* with lag_days = 0 it returns start_date itself when that is a trading
\* day, and otherwise the first trading day after it.
C9_ReturnsMarketDay ==
    cpc = "done" =>
        /\ TradingDay(current_date)
        /\ current_date >= start_date
        /\ lag_days = 0 =>
              /\ TradingDay(start_date) => current_date = start_date
              /\ \A d \in start_date..(current_date - 1) : ~ TradingDay(d)

\* lag_days = 0 on a Saturday whose Monday is a holiday: Tuesday or later
\* is returned
C9_Witness ==
    /\ cpc = "done"
    /\ lag_days = 0
    /\ weekday(start_date) = 5
    /\ (start_date + 2) \in market_holidays
    /\ current_date >= start_date + 3

\* C10 - for lag_days >= 1 the returned day d is a trading day and exactly
\* lag_days trading days lie in the half-open interval (start_date, d].
C10_LagCountsTradingDays ==
    (cpc = "done" /\ lag_days >= 1) =>
        /\ TradingDay(current_date)
        /\ Cardinality({d \in (start_date + 1)..current_date :
                            TradingDay(d)}) = lag_days

\* a lag of two trading days that steps over a weekend and a holiday
C10_Witness ==
    /\ cpc = "done"
    /\ lag_days = 2
    /\ current_date >= start_date + 5
    /\ \E d \in (start_date + 1)..current_date :
           weekday(d) < 5 /\ d \in market_holidays

(***************************************************************************)
(* Properties of the coupon date generator (checked under SpecCoupon)      *)
(***************************************************************************)
\* most coupon periods between a start date and a maturity date explored
MaxPeriods == 20

\* the dates maturity - k periods, k >= 1
AlignedDates(maturity, freq) ==
    {AddMonths(maturity, 0 - k * (12 \div freq)) : k \in 1..MaxPeriods}

\* the aligned dates strictly after start
AlignedAfter(start, maturity, freq) ==
    {a \in AlignedDates(maturity, freq) : Ordinal(a) > Ordinal(start)}

\* C11: the output of generate_coupon_dates starts at the market shift of
\* the earliest date maturity - k periods (k >= 1) strictly after start_date,
\* so no coupon date between start_date and maturity_date is skipped.
C11_FirstCouponAfterStart ==
    gpc = "done" =>
        LET after == AlignedAfter(cstart, maturity_date, coupon_frequency)
        IN  IF after = {}
            THEN coupon_dates = <<>>
            ELSE /\ coupon_dates # <<>>
                 /\ coupon_dates[1] =
                       market_shifted(Ordinal(
                           CHOOSE a \in after :
                               \A b \in after : Ordinal(a) <= Ordinal(b)))

\* C12: every coupon date produced is, before market shifting, maturity_date
\* minus a whole positive number of coupon periods and strictly before
\* maturity_date, whatever the day of the month of the maturity.
C12_CouponDatesAligned ==
    gpc = "done" =>
        \A i \in 1..Len(unshifted) :
            /\ unshifted[i] \in AlignedDates(maturity_date, coupon_frequency)
            /\ Ordinal(unshifted[i]) < Ordinal(maturity_date)

(***************************************************************************)
(* Properties of the cashflow schedule (checked under SpecSchedule)        *)
(***************************************************************************)
RECURSIVE SumOver(_, _)
SumOver(c, keys) ==
    IF keys = {} THEN 0
    ELSE LET k == CHOOSE x \in keys : TRUE
         IN  DictGet(c[k], "quantity") + SumOver(c, keys \ {k})

\* the running held quantity of the schedule after the entry at d
RunningAt(d) == SumOver(seeded, {k \in DOMAIN seeded : k <= d})

ShiftedMaturity == market_shifted(Ordinal(maturity_date))

\* C13: after apply_coupon_and_principal every entry of the schedule has
\* total_cashflow = coupon_payment + principal_repayment + transaction_amount,
\* an absent component counting as 0.
C13_ScheduleTotal ==
    spc = "done" =>
        \A d \in DOMAIN cf :
            /\ "total_cashflow" \in DOMAIN cf[d]
            /\ cf[d].total_cashflow =
                  DictGet(cf[d], "coupon_payment")
                      + DictGet(cf[d], "principal_repayment")
                      + DictGet(cf[d], "transaction_amount")

\* a built schedule with an entry carrying a coupon and the principal and an
\* entry carrying a transaction amount
C13_Witness ==
    /\ spc = "done"
    /\ \E d \in DOMAIN cf :
          /\ DictGet(cf[d], "coupon_payment") > 0
          /\ DictGet(cf[d], "principal_repayment") > 0
          /\ cf[d].total_cashflow > 0
    /\ \E d \in DOMAIN cf : DictGet(cf[d], "transaction_amount") < 0

\* C14: when the running quantity is positive at the entry of the
\* market-shifted maturity date, that entry and no other receives
\* principal_repayment = face_value * running quantity, and the quantity
\* recorded from that entry onward is 0.
C14_MaturityZeroing ==
    (spc = "done" /\ RunningAt(ShiftedMaturity) > 0) =>
        /\ DictGet(cf[ShiftedMaturity], "principal_repayment") =
              face_value * RunningAt(ShiftedMaturity)
        /\ \A d \in DOMAIN cf \ {ShiftedMaturity} :
              "principal_repayment" \notin DOMAIN cf[d]
        /\ \A d \in DOMAIN cf : d >= ShiftedMaturity => cf[d].quantity = 0

\* C15: the entry at every generated coupon date and at the market-shifted
\* maturity date is tagged as a coupon date, also when a transaction or a
\* quantity credit already made an entry there, and carries the coupon
\* payment of the running quantity when that is positive.
C15_CouponTagging ==
    spc = "done" =>
        \A d \in {coupon_dates[i] : i \in 1..Len(coupon_dates)}
                    \cup {ShiftedMaturity} :
            /\ "coupon_date" \in DOMAIN cf[d] /\ cf[d].coupon_date = TRUE
            /\ RunningAt(d) > 0 =>
                  DictGet(cf[d], "coupon_payment") =
                      (face_value * RunningAt(d) * coupon_rate)
                          \div (100 * coupon_frequency)

\* C16: a transaction history whose running held quantity is negative after
\* some entry never yields a built schedule: the run stops instead.
C16_NegativeHoldingFatal ==
    spc = "done" => \A d \in DOMAIN seeded : RunningAt(d) >= 0

\* C17: a BUY debits units * price on the entry of its trade date and
\* credits its units on the entry of the second trading day after it, a
\* distinct later entry; a SELL posts its quantity reduction and its cash on
\* the entry of its event date.
C17_SettlementLag ==
    [][(spc = "seed" /\ events # <<>> /\ events' = Tail(events)) =>
          LET e  == Head(events)
              qd == CHOOSE x \in (e.date + 1)..(e.date + 14) :
                        /\ TradingDay(x)
                        /\ Cardinality({t \in (e.date + 1)..x :
                                           TradingDay(t)}) = 2
              old(d, k) == IF d \in DOMAIN cf THEN DictGet(cf[d], k) ELSE 0
          IN  IF e.type = "BUY"
              THEN /\ qd > e.date
                   /\ DOMAIN cf' = DOMAIN cf \cup {e.date, qd}
                   /\ cf'[e.date].transaction_amount =
                         old(e.date, "transaction_amount") - e.units * e.price
                   /\ cf'[e.date].quantity = old(e.date, "quantity")
                   /\ cf'[qd].quantity = old(qd, "quantity") + e.units
                   /\ cf'[qd].transaction_amount =
                         old(qd, "transaction_amount")
                   /\ \A d \in DOMAIN cf \ {e.date, qd} : cf'[d] = cf[d]
              ELSE /\ DOMAIN cf' = DOMAIN cf \cup {e.date}
                   /\ cf'[e.date].quantity =
                         old(e.date, "quantity") - e.units
                   /\ cf'[e.date].transaction_amount =
                         old(e.date, "transaction_amount") + e.units * e.price
                   /\ \A d \in DOMAIN cf \ {e.date} : cf'[d] = cf[d]]_vars

\* a BUY and a SELL were seeded: the BUY on two entries, the SELL on one
C17_Witness ==
    /\ spc = "seed"
    /\ events = <<>>
    /\ \E d \in DOMAIN cf :
          cf[d].transaction_amount < 0 /\ cf[d].quantity = 0
    /\ \E d \in DOMAIN cf :
          cf[d].transaction_amount = 0 /\ cf[d].quantity > 0
    /\ \E d \in DOMAIN cf :
          cf[d].transaction_amount > 0 /\ cf[d].quantity < 0

(***************************************************************************)
(* Properties of the XIRR solvers (checked under SpecXirr)                 *)
(***************************************************************************)
\* C18: xirr solves first with guess 0.1; it solves once more, with guess
\* 0.2, if and only if the first solve failed to converge; a second failure
\* is raised to the caller; there is never a third solve, and no second
\* solve after a successful first one.
C18_XirrRetryProtocol ==
    xmode = "xirr" =>
        /\ Len(guesses) <= 2
        /\ Len(outcomes) = Len(guesses)
        /\ guesses # <<>> => guesses[1] = "0.1"
        /\ xpc = "call" <=> guesses = <<>>
        /\ xpc = "except" <=> outcomes = <<"RuntimeError">>
        /\ Len(guesses) = 2 =>
              outcomes[1] = "RuntimeError" /\ guesses[2] = "0.2"
        /\ xpc = "returned" <=>
              outcomes \in {<<"root">>, <<"RuntimeError", "root">>}
        /\ xpc = "raised" <=> outcomes = <<"RuntimeError", "RuntimeError">>

\* both solves of one xirr call failed and the error left xirr
C18_Witness ==
    /\ xmode = "xirr"
    /\ xpc = "raised"
    /\ guesses = <<"0.1", "0.2">>

\* C19: forward_xirr solves over the input cashflows dated strictly after
\* today, preceded by -portfolio_value dated today, and returns
\* not-a-number without solving when no cashflow is dated after today.
C19_ForwardXirrInput ==
    xmode = "forward_xirr" =>
        LET After(i) == xdates[i] > today
            late     == {i \in 1..Len(xdates) : After(i)}
        IN  /\ late = {} =>
                  /\ xpc \in {"call", "nan"}
                  /\ guesses = <<>>
            /\ late # {} => xpc # "nan"
            /\ guesses # <<>> =>
                  /\ Len(new_dates) = Cardinality(late) + 1
                  /\ Len(new_cashflows) = Cardinality(late) + 1
                  /\ new_dates[1] = today
                  /\ new_cashflows[1] = 0 - portfolio_value
                  /\ \A i \in late :
                        LET r == Cardinality({j \in late : j <= i})
                        IN  /\ new_dates[r + 1] = xdates[i]
                            /\ new_cashflows[r + 1] = xflows[i]

\* a solve over an input that holds a cashflow dated today, one before and
\* one after today
C19_Witness ==
    /\ xmode = "forward_xirr"
    /\ guesses # <<>>
    /\ \E i \in 1..Len(xdates) : xdates[i] = today
    /\ \E i \in 1..Len(xdates) : xdates[i] < today
    /\ Len(new_dates) = 2

(***************************************************************************)
(* Properties of the yield-to-maturity dispatch (checked under SpecYtm)    *)
(***************************************************************************)
\* C20: a missing or non-positive price gives not-a-number for every type;
\* otherwise a T-bill gets the T-bill form (not-a-number when the days to
\* maturity are <= 0), a stripped bond the zero-coupon form (not-a-number
\* when the years are <= 0), and any other instrument goes to the coupon-bond
\* Newton routine unless its coupon rate is missing or non-positive, which
\* gives not-a-number with no solve; the coupon rate plays no part for
\* T-bills and stripped bonds.
C20_YtmDispatch ==
    ypc = "done" =>
        LET bad_price  == price = <<>> \/ price[1] <= 0
            bad_coupon == ytm_coupon_rate = <<>> \/ ytm_coupon_rate[1] <= 0
        IN  IF bad_price
            THEN ytm = "nan" /\ ytm_calls = <<>>
            ELSE IF is_tbill
            THEN IF days_to_maturity <= 0
                 THEN ytm = "nan" /\ ytm_calls = <<>>
                 ELSE ytm = "tbill" /\ ytm_calls = <<"__ytm_tbill">>
            ELSE IF is_stripped_gsec
            THEN /\ ytm_calls = <<"__ytm_stripped_gsec">>
                 /\ ytm = IF days_to_maturity <= 0 THEN "nan" ELSE "stripped"
            ELSE IF bad_coupon
            THEN ytm = "nan" /\ ytm_calls = <<>>
            ELSE /\ ytm_calls # <<>>
                 /\ ytm_calls[1] = "__ytm_coupon_bond"
                 /\ ytm \in {"root", "nan"}
                 /\ days_to_maturity > 0 =>
                       ytm_calls = <<"__ytm_coupon_bond", "newton">>

\* a T-bill with a valid price and a missing coupon rate got the T-bill form
C20_Witness ==
    /\ ypc = "done"
    /\ is_tbill
    /\ ytm_coupon_rate = <<>>
    /\ ytm = "tbill"

(***************************************************************************)
(* Properties of the price search                                          *)
(***************************************************************************)
\* the call has returned and every probe answered as the well-behaved
\* oracle with the threshold of the run does
ReturnedMonotone == search.pc = "returned" /\ search.monotone

\* C22 - The price search always terminates: whatever start < end, whatever
\* tolerance > 0 and whatever the oracle does on each probe, every
\* iteration of the loop leaves the bracket strictly narrower than it found
\* it, so that the width falls to the tolerance and the loop exits.
C22_BracketShrinks ==
    [][(search.pc = "probed" /\ search'.pc = "loop")
        => (search'.right - search'.left < search.right - search.left)]_vars

\* C23 - Price/yield inverse: with an oracle that decreases in the price, a
\* price the search returns, as returned after rounding to two decimals,
\* meets the target yield when it is probed again.
C23_ReturnedPriceQualifies ==
    (ReturnedMonotone /\ search.result # None)
        => Answer(search.result[1], search.threshold) = "meets"

\* C24 - Highest qualifying price: with an oracle that decreases in the
\* price and a threshold in [start, end], the search returns a price that
\* lies in [start, end] and within the tolerance of the threshold.
C24_HighestQualifying ==
    (/\ ReturnedMonotone
     /\ search.start <= search.threshold
     /\ search.threshold <= search.end)
        => /\ search.result # None
           /\ search.start <= search.result[1]
           /\ search.result[1] <= search.end
           /\ 2 * (search.threshold - search.result[1]) <= search.tol2
           /\ 2 * (search.result[1] - search.threshold) <= search.tol2

\* C25 - Search exhaustion: the search returns nothing only if no price of
\* the bracket [start, end] meets the target; when some price of the
\* bracket qualifies, be it start itself, a price is returned.
C25_NoneOnlyWhenNoneQualifies ==
    (ReturnedMonotone /\ search.result = None)
        => search.threshold < search.start

\* C28 - A failing probe is not fatal: a probe on which the oracle raises
\* or returns not-a-number moves the upper bound to the probed price,
\* leaves the lower bound and the best recorded price alone and goes on
\* with the loop, as a probe below the target does; a failing probe at end
\* moves nothing; and the price recorded before a failing probe is the one
\* the loop returns, rounded.
C28_ProbeFailureNotFatal ==
    [][/\ (search.pc = "probed" /\ search.irr \in ProbeFailures)
            => /\ search'.pc = "loop"
               /\ search'.right = search.mid
               /\ search'.left = search.left
               /\ search'.best_price = search.best_price
       /\ (search.pc = "end_probe" /\ search'.irr \in ProbeFailures)
            => /\ search'.pc = "loop"
               /\ search'.right = search.right
               /\ search'.left = search.left
               /\ search'.best_price = search.best_price
       /\ (search.pc = "loop" /\ search'.pc = "returned"
           /\ search.best_price # None)
            => search'.result = <<Round2(search.best_price[1])>>]_vars

\* a search returned the price it had recorded before a probe failed
C28_Witness ==
    /\ search.pc = "returned"
    /\ search.failed
    /\ search.irr = "exception"
    /\ search.result # None

(***************************************************************************)
(* Properties of the coupon-bond yield routine                             *)
(***************************************************************************)
\* the call is over, by return or by an exception
BondOver == bond.pc \in {"done", "raised"}

\* C21 - In both ytm_calculator modules the coupon-bond routine returns
\* not-a-number, and raises nothing, when the price is <= 0, the coupon
\* rate is negative, settlement is at or after maturity, or Newton's method
\* does not converge.
C21_NaNNeverRaises ==
    (BondOver /\ (BondInvalid(bond) \/ bond.outcome = "RuntimeError"))
        => (bond.pc = "done" /\ bond.result = "nan")

\* C29 - For settlement before maturity the period count N is the smallest
\* integer >= days * frequency / 365, so N >= 1 and N is not below the
\* fractional count; the solve discounts C = coupon_rate * face_value /
\* frequency at t = 1 .. N and the face value at N.  Both modules.
C29_PeriodOverCount ==
    ((bond.pc = "newton" \/ bond.outcome # "") /\ bond.days > 0)
        => /\ bond.n_periods * 365 >= bond.days * bond.coupon_frequency
           /\ (bond.n_periods - 1) * 365 < bond.days * bond.coupon_frequency
           /\ bond.n_periods >= 1
           /\ bond.C * bond.coupon_frequency
                = bond.coupon_rate * bond.face_value
           /\ DOMAIN bond.coupons = 1 .. bond.n_periods
           /\ \A t \in DOMAIN bond.coupons : bond.coupons[t] = bond.C
           /\ bond.principal_at = bond.n_periods

\* a solve of each module over a stretch that is not a whole number of
\* periods: 183 days at two coupons a year count as two periods
C29_Witness ==
    /\ bond.pc = "done"
    /\ bond.result = "ytm"
    /\ bond.impl = "util"
    /\ bond.days = 183
    /\ bond.coupon_frequency = 2
    /\ bond.n_periods = 2
    /\ bond.C = 300

(***************************************************************************)
(* Properties of the XIRR section of generate_cashflows                    *)
(***************************************************************************)
\* the instruments of the batch
BatchSymbols == {batch.symbols[i] : i \in DOMAIN batch.symbols}

\* C26 - A numerical failure is recoverable: an instrument whose solve does
\* not converge gets not-a-number as its yield, the yields of all other
\* instruments are still computed, and no non-convergence of the batch, be
\* it in the portfolio XIRR or the portfolio forward XIRR, is raised out of
\* generate_cashflows.
C26_FailureRecoverable ==
    /\ batch.pc # "raised"
    /\ \A s \in batch.failed :
        /\ batch.xirr_per_instrument[s] = "nan"
        /\ batch.forward_xirr_per_instrument[s] = "nan"
    /\ (batch.pc \in {"done", "portfolio_forward"}
        \/ (batch.pc = "instruments" /\ batch.todo = <<>>))
        => /\ DOMAIN batch.xirr_per_instrument = BatchSymbols
           /\ DOMAIN batch.forward_xirr_per_instrument = BatchSymbols

(***************************************************************************)
(* Properties of the thread pool                                           *)
(***************************************************************************)
\* compute_for_commodity run alone, from the frame w to the end of its loop
RECURSIVE RunAlone(_)
RunAlone(w) ==
    IF w.register_data = <<>> THEN w
    ELSE LET entry == Head(w.register_data)
         IN  RunAlone(
                [EntryApplied(w, entry) EXCEPT
                    !.cashflow_dates_and_quantity =
                        SlotAdded(w.cashflow_dates_and_quantity, entry)])

\* the part of its register the call w has gone through
Consumed(w) ==
    LET data == pool.register[w.commodity]
    IN  SubSeq(data, 1, Len(data) - Len(w.register_data))

\* the frame w holds what a run alone over the entries it has gone through
\* leaves, and nothing else
OwnWorkOnly(w) ==
    LET alone == RunAlone(StartedWorker(w.commodity, Consumed(w)))
    IN  /\ w.cashflow_dates_and_quantity = alone.cashflow_dates_and_quantity
        /\ w.total_investment = alone.total_investment
        /\ w.total_quantity = alone.total_quantity

\* the result of compute_for_commodity for c, run alone
Sequential(c) == ResultOf(RunAlone(StartedWorker(c, pool.register[c])))

C30_SettlementConsistent ==
    settle.pc = "done" =>
        /\ settle.settlement_date = qty_date(settle.trade_date)
        /\ settle.dates[1] = settle.settlement_date
        /\ settle.cashflows[1] = 0

====
